---- MODULE Spec2Model ----
(***************************************************************************)
(* AviSuite, Module 1 (DSP core of the Fatigue Analyzer), src/Combined.py. *)
(*                                                                         *)
(* Numbers.  The program computes in IEEE floating point; the model        *)
(* computes on a fixed-point grid of ONE = 1000 steps per unit, in TLC's   *)
(* 32-bit integers.  A quantity written "x (fx)" below is the integer      *)
(* x*ONE.  The additive guards 1e-6 .. 1e-12 of the source are below the   *)
(* grid: "x < 1e-12" is modelled as "x <= 0" and "a/(b+1e-12)" as the      *)
(* quotient a/b with the value the source gets at b = 0 written out.       *)
(*                                                                         *)
(* Scale.  The analyses run at a reduced sample rate SR, so that a frame   *)
(* has FRAME_N = 25 samples instead of 551; the frame and hop durations,   *)
(* the pitch range and the LPC order are the program's own.                *)
(***************************************************************************)
EXTENDS Integers, Sequences, FiniteSets, TLC

VARIABLES
    cache,      \* _FBANK_CACHE: the memoised mel filterbanks, key -> matrix
    last,       \* the call that ran last: its inputs and what it returned
    ref         \* an earlier analysis kept for comparison with later ones

vars == <<cache, last, ref>>

None == [op |-> "none"]

-----------------------------------------------------------------------------
(* Fixed operating parameters, src/Combined.py:216-223 *)

SR == 1000
FRAME_MS == 25
HOP_MS == 10
FRAME_N == (SR * FRAME_MS) \div 1000
HOP_N == (SR * HOP_MS) \div 1000
N_MFCC == 13
N_LPC == 16
PRE_EMP == 970          \* 0.97 (fx)

\* Defaults of the spectral functions, scaled with SR: n_fft (512 at 22050
\* Hz) stays below FRAME_N, so that the transform crops the frame as it does
\* in the program; the mel range stays below SR/2.
N_FFT == 16
N_MELS == 6
FMIN == 80
FMAX == 400

ONE == 1000
LN2 == 693             \* ln 2 (fx)

\* A float32 sample that is not a number, and one that is infinite.
NAN == -1073741824
INF == 1073741824
IsFinite(x) == x # NAN /\ x # INF /\ x # -INF

-----------------------------------------------------------------------------
(* Arithmetic helpers *)

Abs(x) == IF x < 0 THEN -x ELSE x
Max2(a, b) == IF a >= b THEN a ELSE b
Min2(a, b) == IF a <= b THEN a ELSE b

\* Quotient rounded toward zero (the grid value of a float quotient).
Quot(a, b) == IF a >= 0 THEN a \div b ELSE -((-a) \div b)

\* The array s with every entry evaluated, once.
AsSeq(s) == << >> \o s

\* Sum of f[lo..hi] by halving, so that the evaluation depth stays small.
RECURSIVE SumRange(_, _, _)
SumRange(f, lo, hi) ==
    IF lo > hi THEN 0
    ELSE IF lo = hi THEN f[lo]
    ELSE LET mid == (lo + hi) \div 2
         IN SumRange(f, lo, mid) + SumRange(f, mid + 1, hi)

SumSeq(s) == SumRange(s, 1, Len(s))

RECURSIVE MaxRange(_, _, _)
MaxRange(f, lo, hi) ==
    IF lo = hi THEN f[lo]
    ELSE LET mid == (lo + hi) \div 2
         IN Max2(MaxRange(f, lo, mid), MaxRange(f, mid + 1, hi))

\* np.clip(x, lo, hi)
Clip(x, lo, hi) == Min2(Max2(x, lo), hi)

Pow2(k) == 2 ^ k

\* exp(y) (fx) for y (fx) in [0, LN2): the series to the fourth power.
ExpSmall(r) ==
    LET r2 == (r * r) \div ONE
        r3 == (r2 * r) \div ONE
        r4 == (r3 * r) \div ONE
    IN ONE + r + r2 \div 2 + r3 \div 6 + r4 \div 24

\* np.exp(y) (fx) for y (fx), y <= 13; below -13 it is 0 on the grid: exp(y) = 2^k * exp(y - k ln 2).
FxExp(y) ==
    LET k == y \div LN2
        r == y - k * LN2
    IN IF y < -13 * ONE THEN 0
       ELSE IF k >= 0 THEN ExpSmall(r) * Pow2(k) ELSE ExpSmall(r) \div Pow2(-k)

\* floor(sqrt(n)) for n >= 0, by bisection on [lo, hi].
RECURSIVE SqrtBetween(_, _, _)
SqrtBetween(n, lo, hi) ==
    IF lo >= hi THEN lo
    ELSE LET mid == (lo + hi + 1) \div 2
         IN IF mid * mid <= n THEN SqrtBetween(n, mid, hi)
            ELSE SqrtBetween(n, lo, mid - 1)

ISqrt(n) == SqrtBetween(n, 0, 46340)

\* np.sqrt(v) (fx) for v (fx)
FxSqrt(v) == IF v <= 0 THEN 0 ELSE ISqrt(Min2(v, 2000000) * ONE)

\* The grid is finite: products and quotients saturate at +-FX_MAX, as a
\* float saturates at its largest value.
FX_MAX == 2000000
BIG == 2000000000
Sgn(x) == IF x > 0 THEN 1 ELSE IF x < 0 THEN -1 ELSE 0

\* a * b (fx) for a, b (fx)
FxMul(a, b) ==
    IF a = 0 \/ b = 0 THEN 0
    ELSE IF Abs(a) > BIG \div Abs(b) THEN Sgn(a) * Sgn(b) * FX_MAX
    ELSE Clip(Quot(a * b, ONE), -FX_MAX, FX_MAX)

\* a / b (fx) for a, b (fx), b > 0
FxDiv(a, b) ==
    IF Abs(a) > FX_MAX THEN Sgn(a) * FX_MAX
    ELSE Clip(Quot(a * ONE, b), -FX_MAX, FX_MAX)

\* a / b (fx) for whole numbers 0 <= a, 0 < b of any size
Ratio(a, b) ==
    IF a <= FX_MAX THEN Quot(a * ONE, b)
    ELSE Quot(a, Max2(b \div ONE, 1))

\* np.mean(s), rounded toward zero
MeanSeq(s) == Quot(SumSeq(s), Len(s))

\* np.std(s): sqrt(mean((s - mean)^2)); deviations are squared in units of u
\* grid steps so that the squares fit.
StdSeq(s, u) ==
    LET m == MeanSeq(s)
        n == Len(s)
        d(t) == Quot(s[t] - m, u)
    IN u * ISqrt(SumRange([t \in 1..n |-> d(t) * d(t)], 1, n) \div n)

\* s[mask]: the entries s[i], lo <= i <= hi, whose mask[i] is TRUE, in order.
RECURSIVE SelectRange(_, _, _, _)
SelectRange(s, mask, lo, hi) ==
    IF lo > hi THEN << >>
    ELSE IF lo = hi THEN (IF mask[lo] THEN <<s[lo]>> ELSE << >>)
    ELSE LET mid == (lo + hi) \div 2
         IN SelectRange(s, mask, lo, mid) \o SelectRange(s, mask, mid + 1, hi)

-----------------------------------------------------------------------------
(* Signal Conditioner *)

\* A variant of frame_signal without the fallback: no frame when none fits.
frame_signal_short(audio, frame_len, hop) ==
    LET n_frames == 1 + (Len(audio) - frame_len) \div hop
    IN AsSeq([t \in 1..Max2(n_frames, 0) |->
            AsSeq([j \in 1..frame_len |-> audio[(j - 1) + hop * (t - 1) + 1]])])

\* A variant of frame_signal that counts a trailing partial frame and pads
\* it with zeros.
frame_signal_ceil(audio, frame_len, hop) ==
    LET n_frames == 1 + (Len(audio) - frame_len + hop - 1) \div hop
    IN IF n_frames <= 0 THEN <<AsSeq([j \in 1..frame_len |-> 0])>>
       ELSE AsSeq([t \in 1..n_frames |->
                AsSeq([j \in 1..frame_len |->
                    LET i == (j - 1) + hop * (t - 1) + 1
                    IN IF i <= Len(audio) THEN audio[i] ELSE 0])])

\* frame_signal(audio, frame_len, hop): the matrix of overlapping frames,
\* one row per frame; a single row of zeros when no frame fits.
frame_signal(audio, frame_len, hop) ==
    LET n_frames == 1 + (Len(audio) - frame_len) \div hop
    IN IF n_frames <= 0 THEN <<AsSeq([j \in 1..frame_len |-> 0])>>
       ELSE AsSeq([t \in 1..n_frames |->
                AsSeq([j \in 1..frame_len |-> audio[(j - 1) + hop * (t - 1) + 1]])])

\* A variant of pre_emphasis that does not keep the first sample.
pre_emphasis_drop(audio) ==
    AsSeq([n \in 1..(Len(audio) - 1) |->
        IF audio[n + 1] = NAN \/ audio[n] = NAN THEN NAN
        ELSE audio[n + 1] - Quot(PRE_EMP * audio[n], ONE)])

\* pre_emphasis(audio): np.append(audio[0], audio[1:] - coef * audio[:-1]).
pre_emphasis(audio) ==
    AsSeq([n \in 1..Len(audio) |->
        IF n = 1 THEN audio[1]
        ELSE IF audio[n] = NAN \/ audio[n - 1] = NAN THEN NAN
        ELSE audio[n] - Quot(PRE_EMP * audio[n - 1], ONE)])

\* normalize_audio(audio): audio / (peak + 1e-9), peak = np.max(np.abs(audio)).
\* The input is float32 samples in whole units, the output is fx.  np.max of
\* an empty array raises ValueError.  A NaN sample makes the peak NaN and
\* every quotient NaN; an infinite peak makes finite samples 0 and infinite
\* ones NaN.  A zero peak leaves 0 / 1e-9 = 0.
normalize_audio(audio) ==
    IF Len(audio) = 0 THEN [raised |-> "ValueError", at |-> "normalize_audio"]
    ELSE IF \E n \in 1..Len(audio) : audio[n] = NAN
         THEN [raised |-> "none", audio |-> AsSeq([n \in 1..Len(audio) |-> NAN])]
    ELSE IF \E n \in 1..Len(audio) : Abs(audio[n]) = INF
         THEN [raised |-> "none",
               audio |-> AsSeq([n \in 1..Len(audio) |->
                            IF Abs(audio[n]) = INF THEN NAN ELSE 0])]
    ELSE LET peak == MaxRange([n \in 1..Len(audio) |-> Abs(audio[n])],
                              1, Len(audio))
         IN [raised |-> "none",
             audio |-> AsSeq([n \in 1..Len(audio) |->
                          IF peak = 0 THEN 0 ELSE Quot(audio[n] * ONE, peak)])]

\* cos(2 pi k / n) (fx) by Bhaskara's rational approximation on a quarter
\* turn either side of 0: cos(2 pi q) ~ (1 - 16 q^2) / (1 + 4 q^2).
CosQ(a, n) == (ONE * (n * n - 16 * a * a)) \div (n * n + 4 * a * a)

Cos2Pi(k, n) ==
    LET a == k % n
    IN IF 4 * a <= n THEN CosQ(a, n)
       ELSE IF 4 * a < 3 * n THEN -CosQ(2 * a - n, 2 * n)
       ELSE CosQ(n - a, n)

Sin2Pi(k, n) == Cos2Pi(4 * k - n, 4 * n)

\* np.hamming(M)[n] = 0.54 - 0.46 cos(2 pi n / (M-1)) (fx), n = 0..M-1.
hamming(M) ==
    AsSeq([j \in 1..M |->
        IF M = 1 THEN ONE ELSE 540 - Quot(460 * Cos2Pi(j - 1, M - 1), ONE)])

HAMMING_FRAME == hamming(FRAME_N)

\* frame * np.hamming(len(frame)) for one frame (fx)
window_frame(frame) ==
    LET w == IF Len(frame) = FRAME_N THEN HAMMING_FRAME ELSE hamming(Len(frame))
    IN AsSeq([j \in 1..Len(frame) |-> Quot(frame[j] * w[j], ONE)])

\* apply_window(frames)
apply_window(frames) == AsSeq([t \in 1..Len(frames) |-> window_frame(frames[t])])

-----------------------------------------------------------------------------
(* Spectral/Cepstral Engine *)

\* np.log(v) (fx) for v (fx) >= 1 grid step: ln(v) = k ln 2 + ln(m),
\* m in [1, 2), ln(m) = 2 atanh((m-1)/(m+1)) by its series.
RECURSIVE FxLn(_)
FxLn(v) ==
    IF v >= 2 * ONE THEN FxLn(v \div 2) + LN2
    ELSE IF v < ONE THEN FxLn(v * 2) - LN2
    ELSE LET t == ((v - ONE) * ONE) \div (v + ONE)
             t3 == (((t * t) \div ONE) * t) \div ONE
             t5 == (((t3 * t) \div ONE) * t) \div ONE
         IN 2 * (t + t3 \div 3 + t5 \div 5)

LN10 == 2303
LN_1E10 == -23026       \* np.log(1e-10) (fx)
LN_1E12 == -27631       \* np.log(1e-12) (fx)

\* The twiddle factors of an n_fft-point transform (fx).
COS_FFT == AsSeq([m \in 1..N_FFT |-> Cos2Pi(m - 1, N_FFT)])
SIN_FFT == AsSeq([m \in 1..N_FFT |-> Sin2Pi(m - 1, N_FFT)])

\* |rfft(frame, n=n_fft)|^2 (fx): the frame is cropped or zero-padded to
\* n_fft samples; bins 0..n_fft/2 are rows 1..n_fft/2+1.
power_frame(frame, n_fft) ==
    LET M == Min2(Len(frame), n_fft)
        c(m) == IF n_fft = N_FFT THEN COS_FFT[m + 1] ELSE Cos2Pi(m, n_fft)
        sn(m) == IF n_fft = N_FFT THEN SIN_FFT[m + 1] ELSE Sin2Pi(m, n_fft)
    IN AsSeq([b \in 1..(n_fft \div 2 + 1) |->
          LET re == Quot(SumRange([n \in 1..M |->
                            frame[n] * c(((b - 1) * (n - 1)) % n_fft)], 1, M), ONE)
              im == Quot(SumRange([n \in 1..M |->
                            frame[n] * sn(((b - 1) * (n - 1)) % n_fft)], 1, M), ONE)
          IN (re * re + im * im) \div ONE])

power_spectrum(frames, n_fft) ==
    AsSeq([t \in 1..Len(frames) |-> power_frame(frames[t], n_fft)])

\* hz_to_mel(hz) = 2595 log10(1 + hz/700) (fx) for hz in whole Hz
hz_to_mel(hz) == 2595 * ((FxLn(ONE + (hz * ONE) \div 700) * ONE) \div LN10)

\* mel_to_hz(mel) = 700 (10^(mel/2595) - 1) (fx) for mel (fx)
mel_to_hz(mel) == (700 * (FxExp(((mel \div 2595) * LN10) \div ONE) - ONE))

\* mel_filterbank(sr, n_fft, n_mels, fmin, fmax): n_mels rows of n_fft/2+1
\* triangular weights (fx).  Row m rises over bins [bin[m-1], bin[m]) and
\* falls over [bin[m], min(bin[m+1], n_bins)); bins are counted from 0.
mel_filterbank(sr, n_fft, n_mels) ==
    LET n_bins == n_fft \div 2 + 1
        \* mel_pts[i] and bin_pts[i] of the source are entries i + 1 here
        mel_pts(lo, hi) ==
            AsSeq([i \in 1..(n_mels + 2) |-> lo + ((i - 1) * (hi - lo)) \div (n_mels + 1)])
        bin_pts(mp) ==
            AsSeq([i \in 1..(n_mels + 2) |->
                ((n_fft + 1) * mel_to_hz(mp[i])) \div (sr * ONE)])
        rows(bins) ==
            AsSeq([m \in 1..n_mels |->
                AsSeq([k1 \in 1..n_bins |->
                    IF bins[m] <= k1 - 1 /\ k1 - 1 < bins[m + 1]
                    THEN ((k1 - 1 - bins[m]) * ONE) \div (bins[m + 1] - bins[m])
                    ELSE IF bins[m + 1] <= k1 - 1 /\ k1 - 1 < Min2(bins[m + 2], n_bins)
                    THEN ((bins[m + 2] - (k1 - 1)) * ONE) \div (bins[m + 2] - bins[m + 1])
                    ELSE 0])])
    IN rows(bin_pts(mel_pts(hz_to_mel(FMIN), hz_to_mel(FMAX))))

\* A variant of fbank_stored that keeps the latest matrix only: a missing
\* key is built into a cache that drops every other entry.
fbank_stored_latest(c, key) ==
    IF key \notin DOMAIN c
    THEN [k \in {key} |-> mel_filterbank(key[1], key[2], key[3])]
    ELSE c

\* _FBANK_CACHE after `if key not in _FBANK_CACHE: _FBANK_CACHE[key] = ...`
fbank_stored(c, key) ==
    IF key \notin DOMAIN c
    THEN [k \in DOMAIN c \cup {key} |->
             IF k = key THEN mel_filterbank(key[1], key[2], key[3]) ELSE c[k]]
    ELSE c

\* A variant of get_fbank whose lookup ignores the sample rate of the key:
\* it returns the cached matrix of the highest rate.
get_fbank_any_rate(c, sr, n_fft, n_mels) ==
    LET returned(c2) ==
            [cache |-> c2,
             fbank |-> c2[CHOOSE k \in DOMAIN c2 :
                            /\ k[2] = n_fft /\ k[3] = n_mels
                            /\ \A j \in DOMAIN c2 :
                                  (j[2] = n_fft /\ j[3] = n_mels) => j[1] <= k[1]]]
    IN returned(fbank_stored(c, <<sr, n_fft, n_mels>>))

\* get_fbank(sr, n_fft, n_mels) on the cache c: the cache afterwards and the
\* matrix returned.  A missing key is built and stored; a present one is
\* returned as stored.
get_fbank(c, sr, n_fft, n_mels) ==
    LET returned(c2) == [cache |-> c2, fbank |-> c2[<<sr, n_fft, n_mels>>]]
    IN returned(fbank_stored(c, <<sr, n_fft, n_mels>>))

\* The rows of the cosine projection of compute_mfcc:
\* dct_mat[i][k] = cos(pi i (k + 0.5) / n_mels), i < n_mfcc, k < n_mels.
dct_mat(n_mfcc, n_mels) ==
    AsSeq([i \in 1..n_mfcc |->
        AsSeq([k \in 1..n_mels |-> Cos2Pi((i - 1) * (2 * k - 1), 4 * n_mels)])])

\* compute_mfcc from the pre-emphasised buffer on, given the filterbank:
\* an n_mfcc x n_frames matrix (fx).
mfcc_of(audio, fbank, n_mfcc, n_fft) ==
    LET n_mels == Len(fbank)
        n_bins == n_fft \div 2 + 1
        mel_e(power) ==
            AsSeq([t \in 1..Len(power) |->
                AsSeq([m \in 1..n_mels |->
                    SumRange([k \in 1..n_bins |-> (power[t][k] * fbank[m][k]) \div ONE],
                             1, n_bins)])])
        log_me(me) ==
            AsSeq([t \in 1..Len(me) |->
                AsSeq([m \in 1..n_mels |->
                    IF me[t][m] <= 0 THEN LN_1E10 ELSE FxLn(me[t][m])])])
        project(lm, dct) ==
            AsSeq([i \in 1..n_mfcc |->
                AsSeq([t \in 1..Len(lm) |->
                    Quot(SumRange([k \in 1..n_mels |-> lm[t][k] * dct[i][k]], 1, n_mels),
                         ONE)])])
    IN project(log_me(mel_e(power_spectrum(
                   apply_window(frame_signal(pre_emphasis(audio), FRAME_N, HOP_N)),
                   n_fft))),
               dct_mat(n_mfcc, n_mels))

\* delta_features(feat, width=2): regression over +-2 columns, edge-padded.
delta_features(feat) ==
    LET width == 2
        denom == 2 * (1 * 1 + 2 * 2)
        T == Len(feat[1])
        at(i, t) == feat[i][Clip(t, 1, T)]
    IN AsSeq([i \in 1..Len(feat) |->
          AsSeq([t \in 1..T |->
             Quot(1 * (at(i, t + 1) - at(i, t - 1))
                  + 2 * (at(i, t + 2) - at(i, t - 2)), denom)])])

-----------------------------------------------------------------------------
(* Linear Predictive Engine *)

\* np.correlate(x, x, mode='full')[len(x)-1:][k], the lag-k autocorrelation,
\* in squared grid steps (1e-6).
autocorr(x, k) ==
    SumRange([i \in 1..(Len(x) - k) |-> x[i] * x[i + k]], 1, Len(x) - k)

\* One step i (0-based) of the Levinson-Durbin recursion of compute_lpc on
\* the state <<a, e>>; r[k+1] is the lag-k autocorrelation (fx).  The floor
\* 1e-12 that keeps e positive is one grid step here.
lpc_step(st, r, i, order) ==
    LET lam_of(a, e) ==
            FxDiv(Clip(-SumRange([j \in 1..i |-> FxMul(a[j], r[i - j + 2])], 1, i)
                           - r[i + 2], -FX_MAX, FX_MAX), e)
        update(a, e, lam) ==
            <<AsSeq([j \in 1..order |->
                  IF j = i + 1 THEN lam
                  ELSE IF j <= i
                  THEN Clip(a[j] + FxMul(lam, a[i - j + 1]), -FX_MAX, FX_MAX)
                  ELSE a[j]]),
              Max2(FxMul(e, ONE - FxMul(lam, lam)), 1)>>
    IN update(st[1], st[2], lam_of(st[1], st[2]))

\* for i in range(order): the steps i, i + 1, .., order - 1 from the state st
\* (the test on nxt[2], which is always >= 1, only fixes the evaluation order)
RECURSIVE lpc_loop(_, _, _, _)
lpc_loop(st, r, i, order) ==
    IF i >= order THEN st
    ELSE LET nxt == lpc_step(st, r, i, order)
         IN IF nxt[2] >= 1 THEN lpc_loop(nxt, r, i + 1, order) ELSE nxt

\* A variant of compute_lpc without the guard on r[0]: the recursion runs on
\* every frame, from an error of at least one grid step.
compute_lpc_unguarded(frame, order) ==
    LET zeros == AsSeq([j \in 1..order |-> 0])
        lags(fw) == AsSeq([k1 \in 1..(order + 1) |-> autocorr(fw, k1 - 1) \div ONE])
        from_lags(rr) == lpc_loop(<<zeros, Max2(rr[1], 1)>>, rr, 0, order)[1]
    IN from_lags(lags(window_frame(frame)))

\* compute_lpc(frame, order): order coefficients (fx); all zeros when the
\* zero-lag autocorrelation is below the guard.  r[k+1] is the lag-k
\* autocorrelation (fx), k = 0..order.
compute_lpc(frame, order) ==
    LET zeros == AsSeq([j \in 1..order |-> 0])
        lags(fw) == AsSeq([k1 \in 1..(order + 1) |-> autocorr(fw, k1 - 1) \div ONE])
        from_lags(rr) ==
            IF rr[1] <= 0 THEN zeros ELSE lpc_loop(<<zeros, rr[1]>>, rr, 0, order)[1]
    IN from_lags(lags(window_frame(frame)))

\* lfilter([1, a1..a_order], [1], frame): the prediction residual (fx)
lpc_residual(a, frame) ==
    AsSeq([n \in 1..Len(frame) |->
        Clip(frame[n] + SumRange([k \in 1..Min2(Len(a), n - 1) |->
                                    FxMul(a[k], frame[n - k])],
                                 1, Min2(Len(a), n - 1)),
             -FX_MAX, FX_MAX)])

\* compute_lpc_features(audio): the per-frame coefficient list and the
\* three reported aggregates (fx).
compute_lpc_features(audio) ==
    LET \* np.mean(res ** 2)
        error(res) ==
            SumRange([n \in 1..Len(res) |-> FxMul(res[n], res[n]) \div Len(res)],
                     1, Len(res))
        \* np.sqrt(np.sum((b - a) ** 2))
        dist(a, b) ==
            FxSqrt(Min2(SumRange([j \in 1..N_LPC |->
                                    Min2(FxMul(b[j] - a[j], b[j] - a[j]), FX_MAX)],
                                 1, N_LPC), FX_MAX))
        flux(la) ==
            IF Len(la) > 1
            THEN SumRange([t \in 1..(Len(la) - 1) |-> dist(la[t], la[t + 1])],
                          1, Len(la) - 1) \div (Len(la) - 1)
            ELSE 0
        stats(la, errors) ==
            [lpc_all |-> la,
             lpc_error_mean |-> MeanSeq(errors),
             lpc_error_std |->
                 StdSeq(errors, 1 + MaxRange(errors, 1, Len(errors)) \div 30000),
             lpc_flux |-> flux(la)]
        with_lpc(frames, la) ==
            stats(la, AsSeq([t \in 1..Len(frames) |->
                          error(lpc_residual(la[t], frames[t]))]))
        with_frames(frames) ==
            with_lpc(frames, AsSeq([t \in 1..Len(frames) |->
                                 compute_lpc(frames[t], N_LPC)]))
    IN with_frames(frame_signal(audio, FRAME_N, HOP_N))

-----------------------------------------------------------------------------
(* Pitch & Voicing Engine *)

F0_MIN == 60
F0_MAX == 500
VOICING == 3            \* the acceptance ratio 0.3, in tenths

\* A variant of find_peaks that returns the maxima of the slice, the two
\* ends included.
find_peaks_edges(x, lo, hi) ==
    { p \in lo..hi : x[p] >= 0 /\ \A q \in lo..hi : x[q] <= x[p] }

\* find_peaks(x, height=0) on x[lo..hi]: the positions p, lo < p < hi, that
\* are the middle of a run of equal values with a smaller value on either
\* side, and whose value is >= 0.
find_peaks(x, lo, hi) ==
    { p \in (lo + 1)..(hi - 1) :
        \E i \in (lo + 1)..p : \E j \in p..(hi - 1) :
            /\ \A q \in i..j : x[q] = x[i]
            /\ x[i - 1] < x[i]
            /\ x[j + 1] < x[i]
            /\ p = (i + j) \div 2
            /\ x[p] >= 0 }

\* estimate_f0_frame(frame, sr, f0_min, f0_max): the lag chosen and the
\* estimate sr/lag in Hz (fx), 0 for an unvoiced frame.  corr[k+1] is the
\* lag-k autocorrelation of the centre-clipped windowed frame.  The slice
\* corr[lag_min:lag_max] is lags lag_min..lag_max-1.  The acceptance test
\* corr[best]/(corr[0]+1e-12) >= 0.3 fails at equality because of the guard.
f0_lag(frame, sr, f0_min, f0_max) ==
    LET lag_min == sr \div f0_max
        lag_max == Min2(sr \div f0_min, Len(frame) - 1)
        clip(fw, peak) ==
            AsSeq([j \in 1..Len(fw) |-> IF 10 * Abs(fw[j]) > 3 * peak THEN fw[j] ELSE 0])
        fc_of(fw) == clip(fw, MaxRange([j \in 1..Len(fw) |-> Abs(fw[j])], 1, Len(fw)))
        corr_of(fc) == AsSeq([k1 \in 1..(lag_max + 1) |-> autocorr(fc, k1 - 1)])
        accept(corr, best) ==
            IF 10 * corr[best + 1] > VOICING * corr[1] THEN best ELSE 0
        pick(corr, peaks) ==
            IF peaks = {} THEN 0
            ELSE accept(corr, (CHOOSE p \in peaks :
                                  /\ \A q \in peaks : corr[q] <= corr[p]
                                  /\ \A q \in peaks : corr[q] = corr[p] => p <= q) - 1)
        from_corr(corr) ==
            IF lag_min >= lag_max \/ corr[1] <= 0 THEN 0
            ELSE pick(corr, find_peaks(corr, lag_min + 1, lag_max))
    IN from_corr(corr_of(fc_of(window_frame(frame))))

estimate_f0_frame(frame, sr) ==
    LET f0_at(best) == IF best = 0 THEN 0 ELSE (sr * ONE) \div best
    IN f0_at(f0_lag(frame, sr, F0_MIN, F0_MAX))

\* compute_f0_track(audio, sr)
compute_f0_track(audio, sr) ==
    LET frames == frame_signal(audio, FRAME_N, HOP_N)
    IN AsSeq([t \in 1..Len(frames) |-> estimate_f0_frame(frames[t], sr)])

\* 10*log10(0), and a mean that contains it
NEG_INF == -1000000

\* compute_hnr(audio, sr) (fx, dB): the mean over the frames with energy of
\* 10 log10(r/(1-r)), r the largest autocorrelation in the pitch lag range
\* over the zero-lag one, clipped to [0, 0.9999] (0.999 on the grid).
compute_hnr(audio, sr) ==
    LET lmin == sr \div 500
        lmax == Min2(sr \div 60, FRAME_N - 1)
        db(r) == 10 * ((FxLn(Max2((r * ONE) \div (ONE - r), 1)) * ONE) \div LN10)
        \* what one frame appends to hnrs, from its zero-lag autocorrelation
        \* c0 and the largest one cm over the lags lmin..lmax-1
        of_corr(c0, cm) ==
            IF c0 <= 0 \/ lmin >= lmax THEN << >>
            ELSE IF cm <= 0 THEN <<NEG_INF>>
            ELSE <<db(Clip(Ratio(Max2(cm, 0), c0), 0, ONE - 1))>>
        one(fw) ==
            of_corr(autocorr(fw, 0),
                    MaxRange([k \in lmin..(lmax - 1) |-> autocorr(fw, k)], lmin, lmax - 1))
        RECURSIVE gather(_, _, _)
        gather(frames, lo, hi) ==
            IF lo > hi THEN << >>
            ELSE IF lo = hi THEN one(window_frame(frames[lo]))
            ELSE gather(frames, lo, (lo + hi) \div 2)
                 \o gather(frames, (lo + hi) \div 2 + 1, hi)
        mean(hnrs) ==
            IF hnrs = << >> THEN 0
            ELSE IF \E t \in 1..Len(hnrs) : hnrs[t] = NEG_INF THEN NEG_INF
            ELSE MeanSeq(hnrs)
        of_frames(frames) == mean(gather(frames, 1, Len(frames)))
    IN of_frames(frame_signal(audio, FRAME_N, HOP_N))

\* f0_track[f0_track > 0]
voiced_f0(f0t) ==
    SelectRange(f0t, AsSeq([t \in 1..Len(f0t) |-> f0t[t] > 0]), 1, Len(f0t))

\* A variant of compute_jitter_shimmer whose fallback also takes the tracks
\* of exactly 4 voiced frames.
compute_jitter_shimmer_upto4(audio, sr) ==
    LET \* np.mean(np.abs(np.diff(x)))
        mean_abs_diff(x) ==
            SumRange([i \in 1..(Len(x) - 1) |-> Abs(x[i + 1] - x[i])], 1, Len(x) - 1)
                \div (Len(x) - 1)
        jitter_local(periods) == Ratio(mean_abs_diff(periods), MeanSeq(periods))
        jitter_rap(periods) ==
            Ratio(SumRange([i \in 2..(Len(periods) - 1) |->
                              Abs(periods[i]
                                  - (periods[i - 1] + periods[i] + periods[i + 1]) \div 3)],
                           2, Len(periods) - 1) \div (Len(periods) - 2),
                  MeanSeq(periods))
        amps_of(frames) ==
            AsSeq([t \in 1..Len(frames) |->
                ISqrt(autocorr(frames[t], 0) \div Len(frames[t]))])
        \* amps[:len(f0)][f0 > 0]
        vamps_of(f0, amps) ==
            SelectRange(AsSeq([t \in 1..Len(f0) |-> amps[t]]),
                        AsSeq([t \in 1..Len(f0) |-> f0[t] > 0]), 1, Len(f0))
        sh_local_of(vamps) ==
            IF MeanSeq(vamps) = 0 THEN 0
            ELSE Ratio(mean_abs_diff(vamps), MeanSeq(vamps))
        dict(periods, sh_local) ==
            [jitter_local |-> jitter_local(periods), jitter_rap |-> jitter_rap(periods),
             shimmer_local |-> sh_local,
             shimmer_db |-> (20 * FxLn(ONE + sh_local) * ONE) \div LN10]
        from_voiced(voiced, vamps) ==
            IF Len(voiced) <= 4
            THEN [jitter_local |-> 0, jitter_rap |-> 0,
                  shimmer_local |-> 0, shimmer_db |-> 0]
            ELSE dict(AsSeq([i \in 1..Len(voiced) |-> (ONE * ONE * ONE) \div voiced[i]]),
                      sh_local_of(vamps))
        from_f0(f0) ==
            from_voiced(voiced_f0(f0),
                        vamps_of(f0, amps_of(frame_signal(audio, FRAME_N, HOP_N))))
    IN from_f0(compute_f0_track(audio, sr))

\* compute_jitter_shimmer(audio, sr) (fx).  Periods are in microseconds.
compute_jitter_shimmer(audio, sr) ==
    LET \* np.mean(np.abs(np.diff(x)))
        mean_abs_diff(x) ==
            SumRange([i \in 1..(Len(x) - 1) |-> Abs(x[i + 1] - x[i])], 1, Len(x) - 1)
                \div (Len(x) - 1)
        jitter_local(periods) == Ratio(mean_abs_diff(periods), MeanSeq(periods))
        jitter_rap(periods) ==
            Ratio(SumRange([i \in 2..(Len(periods) - 1) |->
                              Abs(periods[i]
                                  - (periods[i - 1] + periods[i] + periods[i + 1]) \div 3)],
                           2, Len(periods) - 1) \div (Len(periods) - 2),
                  MeanSeq(periods))
        amps_of(frames) ==
            AsSeq([t \in 1..Len(frames) |->
                ISqrt(autocorr(frames[t], 0) \div Len(frames[t]))])
        \* amps[:len(f0)][f0 > 0]
        vamps_of(f0, amps) ==
            SelectRange(AsSeq([t \in 1..Len(f0) |-> amps[t]]),
                        AsSeq([t \in 1..Len(f0) |-> f0[t] > 0]), 1, Len(f0))
        sh_local_of(vamps) ==
            IF MeanSeq(vamps) = 0 THEN 0
            ELSE Ratio(mean_abs_diff(vamps), MeanSeq(vamps))
        dict(periods, sh_local) ==
            [jitter_local |-> jitter_local(periods), jitter_rap |-> jitter_rap(periods),
             shimmer_local |-> sh_local,
             shimmer_db |-> (20 * FxLn(ONE + sh_local) * ONE) \div LN10]
        from_voiced(voiced, vamps) ==
            IF Len(voiced) < 4
            THEN [jitter_local |-> 0, jitter_rap |-> 0,
                  shimmer_local |-> 0, shimmer_db |-> 0]
            ELSE dict(AsSeq([i \in 1..Len(voiced) |-> (ONE * ONE * ONE) \div voiced[i]]),
                      sh_local_of(vamps))
        from_f0(f0) ==
            from_voiced(voiced_f0(f0),
                        vamps_of(f0, amps_of(frame_signal(audio, FRAME_N, HOP_N))))
    IN from_f0(compute_f0_track(audio, sr))

\* Per frame: the sum of squares (energy * frame length, in squared grid
\* steps) and the sum of |diff(sign)| (zero-crossing rate * 2 (L-1)).
SignOf(x) == Sgn(x)
frame_sq(frame) == autocorr(frame, 0)
frame_zc(frame) ==
    SumRange([j \in 1..(Len(frame) - 1) |->
                Abs(SignOf(frame[j + 1]) - SignOf(frame[j]))], 1, Len(frame) - 1)

\* A variant of vad_mask that takes a frame as voiced when either test
\* passes.
vad_mask_either(S, Z, L, nf) ==
    LET T == Len(S)
        m == Min2(nf, T)
        sumS == SumRange(S, 1, m)
        sumZ == SumRange(Z, 1, m)
    IN AsSeq([t \in 1..T |->
          IF m * S[t] > 5 * sumS \/ 20 * m * Z[t] < 40 * sumZ + 2 * (L - 1) * m
          THEN 1 ELSE 0])

\* vad_energy_zcr(audio, sr): the mask, 1 for a voiced frame.  With m the
\* number of leading frames averaged (nf, or all of them if fewer),
\*   energy > 5 mean(energy[:nf]) + 1e-12   is   m S_t > 5 sum(S[:nf]),
\*   zcr < 2 mean(zcr[:nf]) + 0.05          is
\*                          20 m Z_t < 40 sum(Z[:nf]) + 2 (L-1) m,
\* both sides multiplied by the common denominators.
vad_mask(S, Z, L, nf) ==
    LET T == Len(S)
        m == Min2(nf, T)
        sumS == SumRange(S, 1, m)
        sumZ == SumRange(Z, 1, m)
    IN AsSeq([t \in 1..T |->
          IF m * S[t] > 5 * sumS /\ 20 * m * Z[t] < 40 * sumZ + 2 * (L - 1) * m
          THEN 1 ELSE 0])

vad_energy_zcr(audio, sr) ==
    LET frames == frame_signal(audio, FRAME_N, HOP_N)
        S == AsSeq([t \in 1..Len(frames) |-> frame_sq(frames[t])])
        Z == AsSeq([t \in 1..Len(frames) |-> frame_zc(frames[t])])
        nf == Max2(1, sr \div (10 * HOP_N))
    IN vad_mask(S, Z, FRAME_N, nf)

-----------------------------------------------------------------------------
(* Prosody & Spectral Statistics Aggregator *)

\* compute_spectral_features(audio, sr, n_fft) (fx; frequencies in Hz)
compute_spectral_features(audio, sr, n_fft) ==
    LET n_bins == n_fft \div 2 + 1
        freq(k) == ((k - 1) * sr) \div n_fft               \* freqs[k - 1], whole Hz
        psum_of(power) == AsSeq([t \in 1..Len(power) |-> SumRange(power[t], 1, n_bins)])
        centroid_of(power, psum) ==
            AsSeq([t \in 1..Len(power) |->
                IF psum[t] <= 0 THEN 0
                ELSE (Ratio(SumRange([k \in 1..n_bins |-> power[t][k] * (k - 1)],
                                     1, n_bins), psum[t]) * sr) \div n_fft])
        sq(d) == d * d
        spread_of(power, psum, centroid) ==
            AsSeq([t \in 1..Len(power) |->
                IF psum[t] <= 0 THEN 0
                ELSE ONE * ISqrt(SumRange([k \in 1..n_bins |->
                            Ratio(power[t][k], psum[t])
                                * sq(freq(k) - centroid[t] \div ONE)], 1, n_bins)
                        \div ONE)])
        flux_of(power) ==
            AsSeq([t \in 1..Len(power) |->
                IF t = 1 THEN 0
                ELSE 100 * ISqrt(SumRange([k \in 1..n_bins |->
                            sq(Quot(power[t][k] - power[t - 1][k], 100))], 1, n_bins))])
        \* np.argmax(cumsum >= 0.85 * cumsum[-1]): the first bin at which the
        \* running sum reaches 85% of the total
        rolloff_bin(row, total) ==
            CHOOSE k \in 1..n_bins :
                /\ 100 * SumRange(row, 1, k) >= 85 * total
                /\ \A q \in 1..(k - 1) : 100 * SumRange(row, 1, q) < 85 * total
        rolloff_of(power, psum) ==
            AsSeq([t \in 1..Len(power) |-> freq(rolloff_bin(power[t], psum[t])) * ONE])
        meanlog(row) ==
            SumRange([k \in 1..n_bins |->
                        IF row[k] <= 0 THEN LN_1E12 ELSE FxLn(row[k])], 1, n_bins)
                \div n_bins
        flatness_of(power, psum) ==
            AsSeq([t \in 1..Len(power) |->
                IF psum[t] <= 0 THEN ONE
                ELSE Ratio(FxExp(Min2(meanlog(power[t]), 13 * ONE)) * n_bins, psum[t])])
        zcr_of(frames) ==
            AsSeq([t \in 1..Len(frames) |->
                (frame_zc(frames[t]) * ONE) \div (2 * (FRAME_N - 1))])
        ste_of(frames) ==
            AsSeq([t \in 1..Len(frames) |-> frame_sq(frames[t]) \div (FRAME_N * ONE)])
        dict(T, centroid, spread, flux, rolloff, flatness, zcr, ste) ==
            [frames |-> T,
             centroid_mean |-> MeanSeq(centroid), centroid_std |-> StdSeq(centroid, 100),
             spread_mean |-> MeanSeq(spread), flux_mean |-> MeanSeq(flux),
             flux_std |-> StdSeq(flux, 100), rolloff_mean |-> MeanSeq(rolloff),
             flatness_mean |-> MeanSeq(flatness), zcr_mean |-> MeanSeq(zcr),
             zcr_std |-> StdSeq(zcr, 1), ste_mean |-> MeanSeq(ste),
             ste_std |-> StdSeq(ste, 1),
             ste_dynamic |-> IF MeanSeq(ste) <= 0 THEN 0
                             ELSE Ratio(MaxRange(ste, 1, T), MeanSeq(ste))]
        with_centroid(frames, power, psum, centroid) ==
            dict(Len(frames), centroid, spread_of(power, psum, centroid),
                 flux_of(power), rolloff_of(power, psum), flatness_of(power, psum),
                 zcr_of(frames), ste_of(frames))
        with_psum(frames, power, psum) ==
            with_centroid(frames, power, psum, centroid_of(power, psum))
        with_power(frames, power) == with_psum(frames, power, psum_of(power))
        with_frames(frames) ==
            with_power(frames, power_spectrum(apply_window(frames), n_fft))
    IN with_frames(frame_signal(audio, FRAME_N, HOP_N))

\* The indices 1..Len(m)-1 at which the mask m steps from a to b.
Steps(m, a, b) ==
    SelectRange(AsSeq([i \in 1..(Len(m) - 1) |-> i]),
                AsSeq([i \in 1..(Len(m) - 1) |-> m[i] = a /\ m[i + 1] = b]),
                1, Len(m) - 1)

\* A variant of pause_frames that keeps a leading pe: the lists are paired
\* as they are found.
pause_frames_keep_first(voiced) ==
    LET pairs(ps, pe) == AsSeq([i \in 1..Min2(Len(ps), Len(pe)) |-> pe[i] - ps[i]])
        paired(ps, pe0) ==
            IF Len(ps) > 0 /\ Len(pe0) > 0 THEN pairs(ps, pe0) ELSE << >>
    IN paired(Steps(voiced, 1, 0), Steps(voiced, 0, 1))

\* The pauses compute_prosody counts, as frame counts: ps are the steps
\* voiced -> unvoiced, pe the steps unvoiced -> voiced; a leading pe is
\* dropped and the two lists are paired up to the shorter one.
pause_frames(voiced) ==
    LET pairs(ps, pe) == AsSeq([i \in 1..Min2(Len(ps), Len(pe)) |-> pe[i] - ps[i]])
        paired(ps, pe0) ==
            IF Len(ps) > 0 /\ Len(pe0) > 0
            THEN pairs(ps, IF pe0[1] < ps[1] THEN Tail(pe0) ELSE pe0)
            ELSE << >>
    IN paired(Steps(voiced, 1, 0), Steps(voiced, 0, 1))

\* A variant of voiced_runs without the run in progress at the end of the
\* mask.
voiced_runs_closed(voiced) ==
    LET T == Len(voiced)
        idx == AsSeq([i \in 1..T |-> i])
        starts == SelectRange(idx, AsSeq([i \in 1..T |->
                    voiced[i] = 1 /\ (i = 1 \/ voiced[i - 1] = 0)]), 1, T)
        ends == SelectRange(idx, AsSeq([i \in 1..T |->
                    voiced[i] = 1 /\ i < T /\ voiced[i + 1] = 0]), 1, T)
    IN AsSeq([k \in 1..Len(ends) |-> ends[k] - starts[k] + 1])

\* The lengths of the maximal runs of voiced frames, in order (the runs list
\* that the loop of compute_prosody builds).
voiced_runs(voiced) ==
    LET T == Len(voiced)
        idx == AsSeq([i \in 1..T |-> i])
        starts == SelectRange(idx, AsSeq([i \in 1..T |->
                    voiced[i] = 1 /\ (i = 1 \/ voiced[i - 1] = 0)]), 1, T)
        ends == SelectRange(idx, AsSeq([i \in 1..T |->
                    voiced[i] = 1 /\ (i = T \/ voiced[i + 1] = 0)]), 1, T)
    IN AsSeq([k \in 1..Len(starts) |-> ends[k] - starts[k] + 1])

\* compute_prosody from the mask on (fx; durations in seconds)
prosody_of(voiced, sr) ==
    LET durations(pf) == AsSeq([i \in 1..Len(pf) |-> (pf[i] * HOP_N * ONE) \div sr])
        lengths(runs) == AsSeq([k \in 1..Len(runs) |-> runs[k] * ONE])
        dict(pause_dur, runs_fx, total_dur) ==
            [frames |-> Len(voiced),
             speech_ratio |-> (SumSeq(voiced) * ONE) \div Len(voiced),
             pause_count |-> Len(pause_dur),
             pause_rate |-> IF total_dur <= 0 THEN 0
                            ELSE (Len(pause_dur) * ONE * ONE) \div total_dur,
             pause_mean_dur |-> IF Len(pause_dur) > 0 THEN MeanSeq(pause_dur) ELSE 0,
             pause_max_dur |-> IF Len(pause_dur) > 0
                               THEN MaxRange(pause_dur, 1, Len(pause_dur)) ELSE 0,
             pause_total_dur |-> SumSeq(pause_dur),
             voiced_run_mean |-> IF Len(runs_fx) > 0
                                 THEN (MeanSeq(runs_fx) * HOP_N) \div sr ELSE 0,
             voiced_run_std |-> IF Len(runs_fx) > 0
                                THEN (StdSeq(runs_fx, 10) * HOP_N) \div sr ELSE 0,
             total_dur |-> total_dur]
    IN dict(durations(pause_frames(voiced)), lengths(voiced_runs(voiced)),
            (Len(voiced) * HOP_N * ONE) \div sr)

\* compute_prosody(audio, sr)
compute_prosody(audio, sr) == prosody_of(vad_energy_zcr(audio, sr), sr)

-----------------------------------------------------------------------------
(* Indicator Synthesizer *)

\* np.clip(x * num / den, 0, 1) (fx) for x (fx); the two outer cases are the
\* clip itself, taken before the product so that it stays in 32 bits.
ClipFrac(x, num, den) ==
    IF x <= 0 THEN 0
    ELSE IF x > (ONE * den) \div num THEN ONE
    ELSE Clip(Quot(x * num, den), 0, ONE)

\* sigmoid(x, center, scale) = 1/(1 + exp(-(x-center)/scale)) (fx); x and
\* center are fx, scale is a whole number.  Beyond |z| = 13 the float result
\* is within 3e-6 of 0 or 1, which is 0 or ONE on the grid.
sigmoid(x, center, scale) ==
    LET z == Quot(x - center, scale)
    IN IF z > 13 * ONE THEN ONE
       ELSE IF z < -13 * ONE THEN 0
       ELSE (ONE * ONE) \div (ONE + FxExp(-z))

\* A role is the sequence of its characters; "Male" in role is containment.
Contains(role, pat) ==
    \E i \in 0..(Len(role) - Len(pat)) :
        \A j \in 1..Len(pat) : role[i + j] = pat[j]

STR_Male == <<"M", "a", "l", "e">>
STR_Female == <<"F", "e", "m", "a", "l", "e">>

\* A variant of f0_center that matches "male" without regard to case, so
\* that "Female" is taken for "Male".
f0_center_nocase(role) ==
    IF Contains(role, STR_Male) \/ Contains(role, <<"m", "a", "l", "e">>) THEN 140
    ELSE IF Contains(role, STR_Female) THEN 200 ELSE 165

f0_center(role) ==
    IF Contains(role, STR_Male) THEN 140
    ELSE IF Contains(role, STR_Female) THEN 200 ELSE 165

\* f.get(key, default)
Get(f, key, default) == IF key \in DOMAIN f THEN f[key] ELSE default

SumRec(r) ==
    LET names == DOMAIN r
        RECURSIVE S(_)
        S(ns) == IF ns = {} THEN 0
                 ELSE LET n == CHOOSE n \in ns : TRUE IN r[n] + S(ns \ {n})
    IN S(names)

\* A variant of fat_contrib whose shimmer term is not clipped above.
fat_contrib_unclipped(f) ==
    [vocal_energy    |-> (ONE - ClipFrac(f.ste_mean, 500, 1)) * 20,
     hnr_breathiness |-> (ONE - sigmoid(f.hnr, 12 * ONE, 4)) * 18,
     shimmer         |-> Max2(Quot(f.shimmer_db * 10, 25), 0) * 16,
     pitch_flatness  |-> (ONE - ClipFrac(f.f0_range, 1, 150)) * 15,
     pause_length    |-> ClipFrac(f.pause_mean_dur, 10, 12) * 15,
     speech_rate     |-> (ONE - ClipFrac(f.speech_ratio, 100, 65)) * 8,
     voiced_ratio    |-> (ONE - ClipFrac(f.voiced_ratio, 100, 55)) * 8]

fat_contrib(f) ==
    [vocal_energy    |-> (ONE - ClipFrac(f.ste_mean, 500, 1)) * 20,
     hnr_breathiness |-> (ONE - sigmoid(f.hnr, 12 * ONE, 4)) * 18,
     shimmer         |-> ClipFrac(f.shimmer_db, 10, 25) * 16,
     pitch_flatness  |-> (ONE - ClipFrac(f.f0_range, 1, 150)) * 15,
     pause_length    |-> ClipFrac(f.pause_mean_dur, 10, 12) * 15,
     speech_rate     |-> (ONE - ClipFrac(f.speech_ratio, 100, 65)) * 8,
     voiced_ratio    |-> (ONE - ClipFrac(f.voiced_ratio, 100, 55)) * 8]

stre_contrib(f, role) ==
    [f0_elevation   |-> sigmoid(f.f0_mean, (f0_center(role) + 30) * ONE, 25) * 22,
     f0_variability |-> ClipFrac(f.f0_std, 1, 45) * 15,
     jitter         |-> ClipFrac(f.jitter_local, 1000, 15) * 16,
     spectral_flux  |-> ClipFrac(f.flux_mean, 4000, 1) * 13,
     energy_var     |-> ClipFrac(f.ste_std, 600, 1) * 12,
     centroid_hi    |-> sigmoid(f.centroid_mean, 2200 * ONE, 500) * 12,
     lpc_flux       |-> ClipFrac(f.lpc_flux, 60, 1) * 10]

cog_contrib(f) ==
    [hesitation_rate   |-> ClipFrac(f.pause_rate, 25, 10) * 22,
     rhythm_irregular  |-> ClipFrac(f.voiced_run_std, 100, 45) * 18,
     short_voiced_runs |-> (ONE - ClipFrac(f.voiced_run_mean, 10, 7)) * 15,
     lpc_error         |-> ClipFrac(f.lpc_error_std, 1200, 1) * 14,
     spectral_noise    |-> ClipFrac(f.flatness_mean, 6, 1) * 14,
     jitter_rap        |-> ClipFrac(f.jitter_rap, 1000, 12) * 10,
     mfcc_delta        |-> ClipFrac(Abs(Get(f, "mfccD1_mean", 0)), 1, 4) * 7]

\* The four terms of clarity_raw, in the order of the source.
clarity_contrib(f) ==
    <<sigmoid(f.hnr, 10 * ONE, 5) * 35,
      (ONE - ClipFrac(f.jitter_local, 1000, 20)) * 25,
      ClipFrac(f.speech_ratio, 10, 6) * 20,
      (ONE - ClipFrac(f.flatness_mean, 5, 1)) * 20>>

clarity_raw(f) == SumSeq(clarity_contrib(f))

\* A variant of conf_of without the floor of 0.35.
conf_unfloored(f) ==
    Clip(Quot(f.voiced_ratio * Get(f, "total_dur", 5 * ONE), 6 * ONE), 0, ONE)

\* conf = clip(voiced_ratio * total_dur / 6, 0.35, 1.0) (fx)
conf_of(f) ==
    Clip(Quot(f.voiced_ratio * Get(f, "total_dur", 5 * ONE), 6 * ONE), 350, ONE)

\* A variant of risk_of whose breakpoints belong to the lower bucket.
risk_of_inclusive(composite) ==
    IF composite <= 30 * ONE THEN "NOMINAL"
    ELSE IF composite <= 50 * ONE THEN "MONITOR"
    ELSE IF composite <= 70 * ONE THEN "CAUTION"
    ELSE "ALERT"

risk_of(composite) ==
    IF composite < 30 * ONE THEN "NOMINAL"
    ELSE IF composite < 50 * ONE THEN "MONITOR"
    ELSE IF composite < 70 * ONE THEN "CAUTION"
    ELSE "ALERT"

Subs(c) == [k \in DOMAIN c |-> Min2(c[k] * 5, 100 * ONE)]

\* A variant of compute_indicators whose composite takes in the lack of
\* clarity: 0.30 fatigue + 0.25 stress + 0.30 cognitive + 0.15 (100 - clarity).
compute_indicators_with_clarity(f, role) ==
    LET dict(fat, stre, cog, fatigue, stress, cognitive, composite) ==
            [fatigue |-> fatigue, stress |-> stress, cognitive |-> cognitive,
             rt_clarity |-> Clip(clarity_raw(f), 0, 100 * ONE), composite |-> composite,
             risk_level |-> risk_of(composite), confidence |-> conf_of(f) * 100,
             fat_subs |-> Subs(fat), stre_subs |-> Subs(stre), cog_subs |-> Subs(cog),
             f0_mean |-> f.f0_mean, f0_std |-> f.f0_std, f0_slope |-> f.f0_slope,
             hnr |-> f.hnr, jitter |-> f.jitter_local * 100,
             shimmer_db |-> f.shimmer_db, speech_ratio |-> f.speech_ratio * 100,
             pause_rate |-> f.pause_rate, voiced_ratio |-> f.voiced_ratio * 100,
             centroid |-> f.centroid_mean, lpc_flux |-> f.lpc_flux,
             pause_mean |-> f.pause_mean_dur]
        scored(fat, stre, cog, fatigue, stress, cognitive) ==
            dict(fat, stre, cog, fatigue, stress, cognitive,
                 Quot(30 * fatigue + 25 * stress + 30 * cognitive
                          + 15 * (100 * ONE - Clip(clarity_raw(f), 0, 100 * ONE)), 100))
        summed(fat, stre, cog) ==
            scored(fat, stre, cog, Clip(SumRec(fat), 0, 100 * ONE),
                   Clip(SumRec(stre), 0, 100 * ONE), Clip(SumRec(cog), 0, 100 * ONE))
    IN summed(fat_contrib(f), stre_contrib(f, role), cog_contrib(f))

\* compute_indicators(f, role): every score is fx (100.000 is 100 * ONE).
compute_indicators(f, role) ==
    LET dict(fat, stre, cog, fatigue, stress, cognitive, composite) ==
            [fatigue |-> fatigue, stress |-> stress, cognitive |-> cognitive,
             rt_clarity |-> Clip(clarity_raw(f), 0, 100 * ONE), composite |-> composite,
             risk_level |-> risk_of(composite), confidence |-> conf_of(f) * 100,
             fat_subs |-> Subs(fat), stre_subs |-> Subs(stre), cog_subs |-> Subs(cog),
             f0_mean |-> f.f0_mean, f0_std |-> f.f0_std, f0_slope |-> f.f0_slope,
             hnr |-> f.hnr, jitter |-> f.jitter_local * 100,
             shimmer_db |-> f.shimmer_db, speech_ratio |-> f.speech_ratio * 100,
             pause_rate |-> f.pause_rate, voiced_ratio |-> f.voiced_ratio * 100,
             centroid |-> f.centroid_mean, lpc_flux |-> f.lpc_flux,
             pause_mean |-> f.pause_mean_dur]
        scored(fat, stre, cog, fatigue, stress, cognitive) ==
            dict(fat, stre, cog, fatigue, stress, cognitive,
                 Quot(35 * fatigue + 30 * stress + 35 * cognitive, 100))
        summed(fat, stre, cog) ==
            scored(fat, stre, cog, Clip(SumRec(fat), 0, 100 * ONE),
                   Clip(SumRec(stre), 0, 100 * ONE), Clip(SumRec(cog), 0, 100 * ONE))
    IN summed(fat_contrib(f), stre_contrib(f, role), cog_contrib(f))

\* A variant of severity_label whose breakpoints belong to the lower bucket.
severity_label_inclusive(score) ==
    IF score <= 30 * ONE THEN "NOMINAL"
    ELSE IF score <= 50 * ONE THEN "MONITOR"
    ELSE IF score <= 70 * ONE THEN "CAUTION"
    ELSE "ALERT"

\* severity_label(score) for a score (fx)
severity_label(score) ==
    IF score < 30 * ONE THEN "NOMINAL"
    ELSE IF score < 50 * ONE THEN "MONITOR"
    ELSE IF score < 70 * ONE THEN "CAUTION"
    ELSE "ALERT"

\* sev_color(score) for a score (fx)
sev_color(score) ==
    IF score < 30 * ONE THEN "#2dcc8f"
    ELSE IF score < 50 * ONE THEN "#f0a030"
    ELSE IF score < 70 * ONE THEN "#e85020"
    ELSE "#e84040"

-----------------------------------------------------------------------------
(* The pipeline *)

\* A variant of polyfit_slope that fits against the abscissae 1..n without
\* centring them.
polyfit_slope_uncentred(y) ==
    LET n == Len(y)
        m == MeanSeq(y)
    IN Quot(SumRange([i \in 1..n |-> i * (y[i] - m)], 1, n),
            SumRange([i \in 1..n |-> i * i], 1, n))

\* np.polyfit(np.arange(len(y)), y, 1)[0]: the least-squares slope of y
\* against 0..len(y)-1 (fx), with the abscissa centred and doubled.
polyfit_slope(y) ==
    LET n == Len(y)
        m == MeanSeq(y)
        cx(i) == 2 * (i - 1) - (n - 1)
    IN Quot(2 * SumRange([i \in 1..n |-> cx(i) * (y[i] - m)], 1, n),
            SumRange([i \in 1..n |-> cx(i) * cx(i)], 1, n))

\* The body of extract_all_features after normalize_audio, with the
\* filterbank that get_fbank returned: the dictionary it returns, and the
\* frame count each stage worked on.
features_given(audio, sr, fbank) ==
    LET \* no frame holds a non-zero sample
        Silent(F) == \A t \in 1..Len(F) : \A j \in 1..FRAME_N : F[t][j] = 0
        dict(mfcc, mfcc_d, mfcc_dd, f0t, vf0, js, lpc, spec, voiced, pros, hnr,
             frames, pframes) ==
            [f |->
               [f0_mean |-> IF Len(vf0) > 0 THEN MeanSeq(vf0) ELSE 0,
                f0_std |-> IF Len(vf0) > 0 THEN StdSeq(vf0, 100) ELSE 0,
                f0_range |-> IF Len(vf0) > 1
                             THEN MaxRange(vf0, 1, Len(vf0))
                                  + MaxRange([i \in 1..Len(vf0) |-> -vf0[i]], 1, Len(vf0))
                             ELSE 0,
                f0_slope |-> IF Len(vf0) > 2 THEN polyfit_slope(vf0) ELSE 0,
                voiced_ratio |-> (Len(vf0) * ONE) \div Len(f0t),
                jitter_local |-> js.jitter_local, jitter_rap |-> js.jitter_rap,
                shimmer_local |-> js.shimmer_local, shimmer_db |-> js.shimmer_db,
                lpc_error_mean |-> lpc.lpc_error_mean, lpc_error_std |-> lpc.lpc_error_std,
                lpc_flux |-> lpc.lpc_flux,
                centroid_mean |-> spec.centroid_mean, centroid_std |-> spec.centroid_std,
                spread_mean |-> spec.spread_mean, flux_mean |-> spec.flux_mean,
                flux_std |-> spec.flux_std, rolloff_mean |-> spec.rolloff_mean,
                flatness_mean |-> spec.flatness_mean, zcr_mean |-> spec.zcr_mean,
                zcr_std |-> spec.zcr_std, ste_mean |-> spec.ste_mean,
                ste_std |-> spec.ste_std, ste_dynamic |-> spec.ste_dynamic,
                speech_ratio |-> pros.speech_ratio, pause_count |-> pros.pause_count,
                pause_rate |-> pros.pause_rate, pause_mean_dur |-> pros.pause_mean_dur,
                pause_max_dur |-> pros.pause_max_dur,
                pause_total_dur |-> pros.pause_total_dur,
                voiced_run_mean |-> pros.voiced_run_mean,
                voiced_run_std |-> pros.voiced_run_std, total_dur |-> pros.total_dur,
                mfcc_mean |-> AsSeq([i \in 1..N_MFCC |-> MeanSeq(mfcc[i])]),
                mfcc_std |-> AsSeq([i \in 1..N_MFCC |-> StdSeq(mfcc[i], 10)]),
                mfccD_mean |-> AsSeq([i \in 1..N_MFCC |-> MeanSeq(mfcc_d[i])]),
                mfccDD_mean |-> AsSeq([i \in 1..N_MFCC |-> MeanSeq(mfcc_dd[i])]),
                mfccD1_mean |-> MeanSeq(mfcc_d[1]),
                hnr |-> hnr, f0_track |-> f0t, sr |-> sr],
             stages |->
                  [frames |-> Len(frames),
                   all_zero |-> Silent(frames) /\ Silent(pframes),
                   mfcc |-> Len(mfcc[1]), mfcc_d |-> Len(mfcc_d[1]),
                   mfcc_dd |-> Len(mfcc_dd[1]), f0 |-> Len(f0t),
                   lpc |-> Len(lpc.lpc_all), vad |-> Len(voiced), spec |-> spec.frames]]
        staged(mfcc, f0t, js, lpc, spec, voiced, hnr, frames, pframes) ==
            dict(mfcc, delta_features(mfcc), delta_features(delta_features(mfcc)),
                 f0t, voiced_f0(f0t), js, lpc, spec, voiced, prosody_of(voiced, sr),
                 hnr, frames, pframes)
    IN staged(mfcc_of(audio, fbank, N_MFCC, N_FFT), compute_f0_track(audio, sr),
              compute_jitter_shimmer(audio, sr), compute_lpc_features(audio),
              compute_spectral_features(audio, sr, N_FFT), vad_energy_zcr(audio, sr),
              compute_hnr(audio, sr), frame_signal(audio, FRAME_N, HOP_N),
              frame_signal(pre_emphasis(audio), FRAME_N, HOP_N))

-----------------------------------------------------------------------------
(* Specification SpecInd: compute_indicators applied to feature sets.      *)
(* A feature set starts with the features of each category (fatigue,       *)
(* stress, cognitive load) all at the value that zeroes the category or    *)
(* all at the value that saturates it, and then has up to MaxEdits single  *)
(* features replaced by values from FeatureValues, or the role changed     *)
(* (ref is the call before, when it was on the same feature set, and None  *)
(* otherwise).  severity_label and sev_color are applied to the scores of  *)
(* every record and, from the initial records, to the scores on and one    *)
(* grid step either side of each breakpoint.                               *)

MaxEdits == 2

ROLE_LIST ==
    << <<"P","i","l","o","t"," ","(","M","a","l","e",")">>,
       <<"P","i","l","o","t"," ","(","F","e","m","a","l","e",")">>,
       <<"A","T","C"," ","C","o","n","t","r","o","l","l","e","r">> >>

ROLES == {ROLE_LIST[i] : i \in 1..Len(ROLE_LIST)}

FatigueFeatures == {"ste_mean", "shimmer_db", "f0_range", "pause_mean_dur",
                    "speech_ratio", "voiced_ratio", "hnr"}
StressFeatures == {"f0_mean", "f0_std", "jitter_local", "flux_mean", "ste_std",
                   "centroid_mean", "lpc_flux"}
CogFeatures == {"pause_rate", "voiced_run_std", "voiced_run_mean",
                "lpc_error_std", "flatness_mean", "jitter_rap", "mfccD1_mean"}
OtherFeatures == {"total_dur", "f0_slope"}
FeatureNames ==
    FatigueFeatures \cup StressFeatures \cup CogFeatures \cup OtherFeatures

\* The value (fx) of feature k that makes its contributor 0 (hi = FALSE) or
\* its full weight (hi = TRUE).
Extreme(k, hi) ==
    CASE k = "ste_mean"        -> IF hi THEN 0 ELSE 500
      [] k = "hnr"             -> IF hi THEN -60 * ONE ELSE 80 * ONE
      [] k = "shimmer_db"      -> IF hi THEN 3 * ONE ELSE 0
      [] k = "f0_range"        -> IF hi THEN 0 ELSE 200 * ONE
      [] k = "pause_mean_dur"  -> IF hi THEN 2 * ONE ELSE 0
      [] k = "speech_ratio"    -> IF hi THEN 0 ELSE ONE
      [] k = "voiced_ratio"    -> IF hi THEN 0 ELSE ONE
      [] k = "f0_mean"         -> IF hi THEN 900 * ONE ELSE 0
      [] k = "f0_std"          -> IF hi THEN 50 * ONE ELSE 0
      [] k = "jitter_local"    -> IF hi THEN 30 ELSE 0
      [] k = "flux_mean"       -> IF hi THEN 5 * ONE ELSE 0
      [] k = "ste_std"         -> IF hi THEN 400 ELSE 0
      [] k = "centroid_mean"   -> IF hi THEN 11000 * ONE ELSE 0 - 5000 * ONE
      [] k = "lpc_flux"        -> IF hi THEN 2 * ONE ELSE 0
      [] k = "pause_rate"      -> IF hi THEN ONE ELSE 0
      [] k = "voiced_run_std"  -> IF hi THEN ONE ELSE 0
      [] k = "voiced_run_mean" -> IF hi THEN 0 ELSE 2 * ONE
      [] k = "lpc_error_std"   -> IF hi THEN 20 ELSE 0
      [] k = "flatness_mean"   -> IF hi THEN ONE ELSE 0
      [] k = "jitter_rap"      -> IF hi THEN 30 ELSE 0
      [] k = "mfccD1_mean"     -> IF hi THEN 0 - 9 * ONE ELSE 0
      [] k = "total_dur"       -> IF hi THEN 30 * ONE ELSE 500
      [] k = "f0_slope"        -> IF hi THEN 2 * ONE ELSE 0 - 2 * ONE

\* A value of feature k strictly between its extremes.
Middle(k) ==
    CASE k = "ste_mean"        -> 1
      [] k = "hnr"             -> 11 * ONE
      [] k = "shimmer_db"      -> 1250
      [] k = "f0_range"        -> 60 * ONE
      [] k = "pause_mean_dur"  -> 500
      [] k = "speech_ratio"    -> 300
      [] k = "voiced_ratio"    -> 400
      [] k = "f0_mean"         -> 190 * ONE
      [] k = "f0_std"          -> 15 * ONE
      [] k = "jitter_local"    -> 6
      [] k = "flux_mean"       -> 0 - 3
      [] k = "ste_std"         -> 1
      [] k = "centroid_mean"   -> 2200 * ONE
      [] k = "lpc_flux"        -> 7
      [] k = "pause_rate"      -> 200
      [] k = "voiced_run_std"  -> 150
      [] k = "voiced_run_mean" -> 350
      [] k = "lpc_error_std"   -> 0 - 1
      [] k = "flatness_mean"   -> 100
      [] k = "jitter_rap"      -> 5
      [] k = "mfccD1_mean"     -> 1500
      [] k = "total_dur"       -> 4 * ONE
      [] k = "f0_slope"        -> 0

FeatureValues(k) == {Extreme(k, FALSE), Middle(k), Extreme(k, TRUE)}

BaseFeatures(fatHi, streHi, cogHi) ==
    [k \in FeatureNames |->
        IF k \in FatigueFeatures THEN Extreme(k, fatHi)
        ELSE IF k \in StressFeatures THEN Extreme(k, streHi)
        ELSE IF k \in CogFeatures THEN Extreme(k, cogHi)
        ELSE Middle(k)]

\* The same feature set without the two optional features, which
\* compute_indicators reads with f.get(key, default).
Without(f, keys) == [k \in (DOMAIN f) \ keys |-> f[k]]

Indicated(f, role, edits) ==
    [op |-> "compute_indicators", f |-> f, role |-> role, edits |-> edits,
     rec |-> compute_indicators(f, role)]

InitInd ==
    /\ cache = << >> /\ ref = None
    /\ \E fatHi \in BOOLEAN, streHi \in BOOLEAN, cogHi \in BOOLEAN,
          role \in ROLES, bare \in BOOLEAN :
          LET f == BaseFeatures(fatHi, streHi, cogHi)
          IN /\ bare => (fatHi = streHi /\ streHi = cogHi)
             /\ last = Indicated(IF bare THEN Without(f, {"mfccD1_mean", "total_dur"})
                                      ELSE f, role, 0)

\* compute_indicators on the last feature set with one feature replaced.
\* The role is changed after the edits, not between them: every feature set
\* is reached under every role from the initial states.
Indicate ==
    /\ last.op = "compute_indicators"
    /\ last.edits < MaxEdits
    /\ ref = None
    /\ \E k \in DOMAIN last.f : \E v \in FeatureValues(k) :
          /\ v # last.f[k]
          /\ last' = Indicated([last.f EXCEPT ![k] = v], last.role, last.edits + 1)
    /\ ref' = None
    /\ UNCHANGED cache

\* compute_indicators on the last feature set with another role.
ChangeRole ==
    /\ last.op = "compute_indicators"
    /\ last.edits < MaxEdits
    /\ \E role \in ROLES \ {last.role} :
          last' = Indicated(last.f, role, last.edits)
    /\ ref' = last
    /\ UNCHANGED cache

\* The labelling of one score for display; risk_level is the bucket that
\* compute_indicators gives a composite of the same value.
SeverityLabel ==
    /\ last.op = "compute_indicators"
    /\ last.edits < MaxEdits
    /\ \E score \in {last.rec.fatigue, last.rec.stress, last.rec.cognitive,
                      last.rec.composite}
                     \cup (IF last.edits > 0 THEN {}
                           ELSE {b * ONE + d : b \in {30, 50, 70}, d \in {-1, 0, 1}}) :
          last' = [op |-> "severity_label", score |-> score,
                   label |-> severity_label(score), color |-> sev_color(score),
                   risk_level |-> risk_of(score)]
    /\ ref' = None
    /\ UNCHANGED cache

NextInd == Indicate \/ ChangeRole \/ SeverityLabel

SpecInd == InitInd /\ [][NextInd]_vars

InRange(x, lo, hi) == lo <= x /\ x <= hi

\* C1: for every feature set and role, compute_indicators returns fatigue,
\* stress, cognitive, rt_clarity and composite within [0, 100] and
\* confidence within [35, 100].
C1_ScoresBounded ==
    last.op = "compute_indicators" =>
        /\ InRange(last.rec.fatigue, 0, 100 * ONE)
        /\ InRange(last.rec.stress, 0, 100 * ONE)
        /\ InRange(last.rec.cognitive, 0, 100 * ONE)
        /\ InRange(last.rec.rt_clarity, 0, 100 * ONE)
        /\ InRange(last.rec.composite, 0, 100 * ONE)
        /\ InRange(last.rec.confidence, 35 * ONE, 100 * ONE)

\* The bounds are met: a saturated record whose unclipped confidence
\* product is below the floor.
C1_Witness ==
    /\ last.op = "compute_indicators"
    /\ last.edits > 0
    /\ last.rec.fatigue = 100 * ONE
    /\ last.rec.stress = 100 * ONE
    /\ last.rec.cognitive = 100 * ONE
    /\ last.rec.composite = 100 * ONE
    /\ last.f.voiced_ratio = 0
    /\ last.rec.confidence = 35 * ONE

\* C2: the risk level is NOMINAL exactly when composite < 30, MONITOR
\* exactly when 30 <= composite < 50, CAUTION exactly when
\* 50 <= composite < 70, ALERT exactly when composite >= 70.
C2_RiskSteps ==
    last.op = "compute_indicators" =>
        LET c == last.rec.composite
            r == last.rec.risk_level
        IN /\ r \in {"NOMINAL", "MONITOR", "CAUTION", "ALERT"}
           /\ (r = "NOMINAL") <=> (c < 30 * ONE)
           /\ (r = "MONITOR") <=> (30 * ONE <= c /\ c < 50 * ONE)
           /\ (r = "CAUTION") <=> (50 * ONE <= c /\ c < 70 * ONE)
           /\ (r = "ALERT") <=> (c >= 70 * ONE)

\* A composite exactly on a breakpoint is classified into the upper bucket.
C2_Witness ==
    /\ last.op = "compute_indicators"
    /\ last.edits > 0
    /\ last.rec.composite = 30 * ONE
    /\ last.rec.risk_level = "MONITOR"

\* The weights the categories assign to their contributors.
C14_Weights ==
    [fat |-> [vocal_energy |-> 20, hnr_breathiness |-> 18, shimmer |-> 16,
              pitch_flatness |-> 15, pause_length |-> 15, speech_rate |-> 8,
              voiced_ratio |-> 8],
     stre |-> [f0_elevation |-> 22, f0_variability |-> 15, jitter |-> 16,
               spectral_flux |-> 13, energy_var |-> 12, centroid_hi |-> 12,
               lpc_flux |-> 10],
     cog |-> [hesitation_rate |-> 22, rhythm_irregular |-> 18,
              short_voiced_runs |-> 15, lpc_error |-> 14, spectral_noise |-> 14,
              jitter_rap |-> 10, mfcc_delta |-> 7],
     clarity |-> <<35, 25, 20, 20>>]

\* C14: every contributor of fatigue, stress, cognitive load and clarity
\* lies in [0, its weight], the weights of each category sum to exactly
\* 100, and so the clip to [0, 100] leaves every sub-score as summed.
C14_Contributors ==
    last.op = "compute_indicators" =>
        LET W == C14_Weights
            Within(c, w, score) ==
                /\ DOMAIN c = DOMAIN w
                /\ \A k \in DOMAIN c : 0 <= c[k] /\ c[k] <= w[k] * ONE
                /\ SumRec(w) = 100
                /\ score = SumRec(c)
        IN /\ Within(fat_contrib(last.f), W.fat, last.rec.fatigue)
           /\ Within(stre_contrib(last.f, last.role), W.stre, last.rec.stress)
           /\ Within(cog_contrib(last.f), W.cog, last.rec.cognitive)
           /\ Within(clarity_contrib(last.f), W.clarity, last.rec.rt_clarity)

\* Every contributor of fatigue, stress and cognitive load at its full
\* weight, a feature beyond the range its clip keeps.
C14_Witness ==
    /\ last.op = "compute_indicators"
    /\ last.edits > 0
    /\ last.f.shimmer_db > 2500
    /\ \A k \in DOMAIN C14_Weights.fat :
           fat_contrib(last.f)[k] = C14_Weights.fat[k] * ONE
    /\ \A k \in DOMAIN C14_Weights.stre :
           stre_contrib(last.f, last.role)[k] = C14_Weights.stre[k] * ONE
    /\ \A k \in DOMAIN C14_Weights.cog :
           cog_contrib(last.f)[k] = C14_Weights.cog[k] * ONE

\* Every contributor of clarity at its full weight.
C14_WitnessClarity ==
    /\ last.op = "compute_indicators"
    /\ last.edits > 0
    /\ \A k \in 1..4 : clarity_contrib(last.f)[k] = C14_Weights.clarity[k] * ONE
    /\ last.rec.rt_clarity = 100 * ONE

\* C23: each entry of fat_subs, stre_subs and cog_subs is the contributor
\* normalized by its own weight onto [0, 100]: it is 0 when the contributor
\* is 0, it is 100 exactly when the contributor is at its full weight, and
\* two different values of a contributor (here under two roles) give two
\* different entries.
C23_Normalized ==
    last.op = "compute_indicators" =>
        LET W == C14_Weights
            Normal(c, w, subs) ==
                /\ DOMAIN subs = DOMAIN w
                /\ \A k \in DOMAIN w :
                      /\ 0 <= subs[k] /\ subs[k] <= 100 * ONE
                      /\ c[k] = 0 => subs[k] = 0
                      /\ subs[k] = 100 * ONE <=> c[k] = w[k] * ONE
            Distinct(c, d, subs, other) ==
                \A k \in DOMAIN c : c[k] # d[k] => subs[k] # other[k]
        IN /\ Normal(fat_contrib(last.f), W.fat, last.rec.fat_subs)
           /\ Normal(stre_contrib(last.f, last.role), W.stre, last.rec.stre_subs)
           /\ Normal(cog_contrib(last.f), W.cog, last.rec.cog_subs)
           /\ ref.op = "compute_indicators" =>
                 Distinct(stre_contrib(last.f, last.role),
                          stre_contrib(ref.f, ref.role),
                          last.rec.stre_subs, ref.rec.stre_subs)

\* What holds instead for the one contributor of weight 20, vocal_energy:
\* its entry is 0 at 0 and 100 exactly at the full weight.
C23_WeightTwenty ==
    last.op = "compute_indicators" =>
        /\ C14_Weights.fat.vocal_energy = 20
        /\ fat_contrib(last.f).vocal_energy = 0 => last.rec.fat_subs.vocal_energy = 0
        /\ last.rec.fat_subs.vocal_energy = 100 * ONE
               <=> fat_contrib(last.f).vocal_energy = 20 * ONE

\* C15: the composite is 0.35 fatigue + 0.30 stress + 0.35 cognitive of the
\* returned sub-scores, and the risk level is the bucket of that composite:
\* rt_clarity enters neither.
C15_Composite ==
    last.op = "compute_indicators" =>
        LET c == Quot(35 * last.rec.fatigue + 30 * last.rec.stress
                          + 35 * last.rec.cognitive, 100)
        IN /\ last.rec.composite = c
           /\ last.rec.risk_level =
                  (IF c < 30 * ONE THEN "NOMINAL" ELSE IF c < 50 * ONE THEN "MONITOR"
                   ELSE IF c < 70 * ONE THEN "CAUTION" ELSE "ALERT")

\* A record of full clarity whose composite is the weighted fatigue alone.
C15_Witness ==
    /\ last.op = "compute_indicators"
    /\ last.rec.rt_clarity = 100 * ONE
    /\ last.rec.fatigue > 0 /\ last.rec.stress = 0 /\ last.rec.cognitive = 0
    /\ last.rec.composite = Quot(35 * last.rec.fatigue, 100)
    /\ last.rec.composite > 0

\* C16: the role sets the stress F0 baseline (140 for a role containing
\* "Male", 200 for one containing "Female", 165 otherwise) and nothing
\* else: two calls on the same feature set with different roles agree on
\* fatigue, cognitive, rt_clarity, confidence, fat_subs, cog_subs and the
\* echoed raw features.
C16_RoleOnlyStress ==
    /\ last.op = "compute_indicators" =>
          LET base == IF last.role = ROLE_LIST[1] THEN 140
                      ELSE IF last.role = ROLE_LIST[2] THEN 200 ELSE 165
          IN last.rec.stre_subs.f0_elevation =
                 Min2(sigmoid(last.f.f0_mean, (base + 30) * ONE, 25) * 22 * 5, 100 * ONE)
    /\ (last.op = "compute_indicators" /\ ref.op = "compute_indicators"
            /\ ref.f = last.f /\ ref.role # last.role) =>
          \A k \in (DOMAIN last.rec) \ {"stress", "stre_subs", "composite", "risk_level"} :
              last.rec[k] = ref.rec[k]

\* The same features scored for a male and for a female pilot: the stress
\* scores differ.
C16_Witness ==
    /\ last.op = "compute_indicators" /\ ref.op = "compute_indicators"
    /\ ref.f = last.f
    /\ ref.role = ROLE_LIST[1] /\ last.role = ROLE_LIST[2]
    /\ last.rec.stress < ref.rec.stress
    /\ last.rec.fatigue = ref.rec.fatigue

\* C17: severity_label, and sev_color by its buckets, give every score the
\* bucket compute_indicators gives a composite of the same value, at 30,
\* 50 and 70 as everywhere else.
C17_SameBuckets ==
    last.op = "severity_label" =>
        /\ last.label = last.risk_level
        /\ last.color = (CASE last.risk_level = "NOMINAL" -> "#2dcc8f"
                           [] last.risk_level = "MONITOR" -> "#f0a030"
                           [] last.risk_level = "CAUTION" -> "#e85020"
                           [] last.risk_level = "ALERT" -> "#e84040")

\* A sub-score exactly on a breakpoint.
C17_Witness ==
    /\ last.op = "severity_label"
    /\ last.score \in {30 * ONE, 50 * ONE, 70 * ONE}
    /\ last.label \in {"MONITOR", "CAUTION", "ALERT"}

-----------------------------------------------------------------------------
(* Specification SpecFrame: frame_signal applied to buffers of every       *)
(* length up to MaxN, with every frame length and hop up to MaxL, MaxH;    *)
(* pre_emphasis and normalize_audio applied to buffers of mixed sign, and  *)
(* compute_lpc applied to frames of FRAME_N samples that are silent,       *)
(* nearly silent or loud.                                                  *)

MaxN == 12
MaxL == 5
MaxH == 4
MaxA == 2

\* A buffer of n samples, none of them zero, all of them different.
Ramp(n, a) == [i \in 1..n |-> a * i]

InitFrame == cache = << >> /\ last = None /\ ref = None

FrameSignal ==
    \E n \in 0..MaxN, L \in 1..MaxL, H \in 1..MaxH, a \in 1..MaxA :
        /\ last' = [op |-> "frame_signal", N |-> n, L |-> L, H |-> H,
                    audio |-> Ramp(n, a),
                    frames |-> frame_signal(Ramp(n, a), L, H)]
        /\ UNCHANGED <<cache, ref>>

\* A buffer of n samples of both signs with zeros among them, all of them
\* zero when a = 0.
Wave(n, a, k) == AsSeq([i \in 1..n |-> a * (((i * k) % 5) - 2)])

PreEmphasis ==
    \E n \in 1..MaxN, a \in 0..MaxA, k \in 1..2 :
        /\ last' = [op |-> "pre_emphasis", audio |-> Wave(n, 100 * a, k),
                    out |-> pre_emphasis(Wave(n, 100 * a, k))]
        /\ UNCHANGED <<cache, ref>>

\* The buffer is float32 samples as read: one of them may be NaN or infinite.
NormalizeAudio ==
    \E n \in 1..MaxN, a \in 0..MaxA, k \in 1..2, p \in 1..2,
       x \in {0, NAN, INF, -INF} :
        /\ p <= n
        /\ \E audio \in {IF x = 0 THEN Wave(n, a, k)
                          ELSE [Wave(n, a, k) EXCEPT ![p] = x]} :
              last' = [op |-> "normalize_audio", audio |-> audio,
                       out |-> normalize_audio(audio)]
        /\ UNCHANGED <<cache, ref>>

\* r0 is r[0] of compute_lpc, the zero-lag autocorrelation of the windowed
\* frame (fx).
ComputeLpc ==
    \E amp \in {0, 1, 2} \cup {100 * a : a \in 1..MaxA}, k \in 1..2,
       order \in {1, 4, N_LPC} :
        /\ last' = [op |-> "compute_lpc", frame |-> Wave(FRAME_N, amp, k),
                    order |-> order,
                    r0 |-> autocorr(window_frame(Wave(FRAME_N, amp, k)), 0) \div ONE,
                    a |-> compute_lpc(Wave(FRAME_N, amp, k), order)]
        /\ UNCHANGED <<cache, ref>>

NextFrame == FrameSignal \/ PreEmphasis \/ NormalizeAudio \/ ComputeLpc

SpecFrame == InitFrame /\ [][NextFrame]_vars

\* C8: frame_signal on N samples with frame length L and hop H returns
\* exactly 1 + floor((N-L)/H) frames, each the L samples starting at a
\* multiple of H, when N >= L, and exactly one frame of L zeros when N < L.
C8_FrameCount ==
    last.op = "frame_signal" =>
        LET F == last.frames
        IN /\ last.N >= last.L =>
                /\ Len(F) = 1 + (last.N - last.L) \div last.H
                /\ \A t \in 1..Len(F) :
                       /\ Len(F[t]) = last.L
                       /\ \A j \in 1..last.L :
                              F[t][j] = last.audio[(t - 1) * last.H + j]
           /\ last.N < last.L =>
                /\ Len(F) = 1
                /\ F[1] = [j \in 1..last.L |-> 0]

C8_Witness ==
    /\ last.op = "frame_signal"
    /\ last.N > 0 /\ last.N < last.L
    /\ last.audio[1] # 0
    /\ Len(last.frames) = 1

C8_WitnessMany ==
    /\ last.op = "frame_signal"
    /\ last.N >= last.L + 2 * last.H
    /\ Len(last.frames) >= 3

\* C11: compute_lpc returns exactly `order` coefficients (16 in the
\* program) for every frame, and all of them are zero when the zero-lag
\* autocorrelation of the windowed frame is below the guard.
C11_LpcLength ==
    /\ N_LPC = 16
    /\ last.op = "compute_lpc" =>
          /\ Len(last.a) = last.order
          /\ last.r0 <= 0 => \A j \in 1..last.order : last.a[j] = 0

\* A frame that is not all zeros, whose energy is below the guard.
C11_Witness ==
    /\ last.op = "compute_lpc" /\ last.order = N_LPC
    /\ \E j \in 1..Len(last.frame) : last.frame[j] # 0
    /\ last.r0 <= 0
    /\ Len(last.a) = N_LPC

\* A loud frame, whose coefficients are not all zero.
C11_WitnessLoud ==
    /\ last.op = "compute_lpc" /\ last.order = N_LPC
    /\ last.r0 > 0
    /\ \E j \in 1..N_LPC : last.a[j] # 0

\* C12: pre_emphasis on a non-empty buffer returns a buffer of the same
\* length, whose first sample is the input's first sample and whose sample
\* n >= 1 is x[n] - c * x[n-1].
C12_PreEmphasis ==
    last.op = "pre_emphasis" =>
        /\ Len(last.out) = Len(last.audio)
        /\ last.out[1] = last.audio[1]
        /\ \A n \in 2..Len(last.audio) :
               last.out[n] = last.audio[n] - Quot(PRE_EMP * last.audio[n - 1], ONE)

C12_Witness ==
    /\ last.op = "pre_emphasis"
    /\ Len(last.audio) >= 3
    /\ last.audio[1] # 0
    /\ \E n \in 2..Len(last.audio) : last.out[n] # last.audio[n]

\* C13: normalize_audio maps every non-zero buffer to a buffer of the same
\* length whose peak magnitude is at most 1, and an all-zero buffer to an
\* all-zero buffer, without a fault.
C13_Normalized ==
    last.op = "normalize_audio" =>
        LET x == last.audio
            y == last.out.audio
        IN /\ last.out.raised = "none"
           /\ Len(y) = Len(x)
           /\ \A n \in 1..Len(y) : IsFinite(y[n]) /\ Abs(y[n]) <= ONE
           /\ (\A n \in 1..Len(x) : x[n] = 0) => \A n \in 1..Len(y) : y[n] = 0

\* The same on buffers of finite samples only, where it holds: the peak of
\* a non-zero buffer is then exactly 1.
C13_NormalizedFinite ==
    (last.op = "normalize_audio" /\ \A n \in 1..Len(last.audio) : IsFinite(last.audio[n])) =>
        LET x == last.audio
            y == last.out.audio
        IN /\ last.out.raised = "none"
           /\ Len(y) = Len(x)
           /\ \A n \in 1..Len(y) : Abs(y[n]) <= ONE
           /\ (\E n \in 1..Len(x) : x[n] # 0) => \E n \in 1..Len(y) : Abs(y[n]) = ONE
           /\ (\A n \in 1..Len(x) : x[n] = 0) => \A n \in 1..Len(y) : y[n] = 0

-----------------------------------------------------------------------------
(* Specification Spec: the analysis engine.  Analyze is one run of the     *)
(* analysis handler, extract_all_features(ab, SR) followed by              *)
(* compute_indicators(feats, role), on one recorded buffer; GetFbank is a  *)
(* call of get_fbank with any key.  cache is _FBANK_CACHE, last is the     *)
(* call that just ended, ref is an earlier analysis kept for comparison.   *)
(* A buffer holding a non-finite sample is shorter than one frame here:    *)
(* the arithmetic of the stages is modelled on finite samples only.        *)

MaxShort == 2       \* short buffers hold 1..MaxShort samples, or FRAME_N - 1
MaxHops == 1        \* silent buffers hold 1..MaxHops + 1 frames

Zeros(n) == AsSeq([i \in 1..n |-> 0])

Square(n, period, amp) ==
    AsSeq([i \in 1..n |-> IF ((i - 1) % period) * 2 < period THEN amp ELSE -amp])

Triangle(n, period, amp) ==
    AsSeq([i \in 1..n |->
        LET q == (i - 1) % period
        IN IF 2 * q < period THEN amp - (4 * amp * q) \div period
           ELSE (4 * amp * q) \div period - 3 * amp])

Click(n, k, amp) == AsSeq([i \in 1..n |-> IF i = k THEN amp ELSE 0])

\* A buffer of n samples: finite and non-zero, silent, ending in NaN, or
\* starting with an infinity.
ShortBuffer(n, kind) ==
    CASE kind = 0 -> AsSeq([i \in 1..n |-> 200 * i])
      [] kind = 1 -> Zeros(n)
      [] kind = 2 -> AsSeq([i \in 1..n |-> IF i = n THEN NAN ELSE 200 * i])
      [] kind = 3 -> AsSeq([i \in 1..n |-> IF i = 1 THEN INF ELSE 0 - 200 * i])

\* Silence, a tone, silence, a slower tone, silence.
Speech ==
    Zeros(12 * HOP_N) \o Triangle(3 * FRAME_N, 8, 1000) \o Zeros(4 * HOP_N)
        \o Square(4 * FRAME_N, 50, 1000) \o Zeros(3 * HOP_N)

\* The recorded buffers (float32 samples in whole units).
BUFFERS ==
    << << >> >>
    \o AsSeq([i \in 1..(4 * MaxShort) |-> ShortBuffer((i - 1) \div 4 + 1, (i - 1) % 4)])
    \o << Square(FRAME_N - 1, 5, 700) >>
    \o AsSeq([i \in 1..(2 * (MaxHops + 1)) |->
                Zeros(FRAME_N + ((i - 1) \div 2) * HOP_N + ((i - 1) % 2) * (HOP_N - 1))])
    \o << Triangle(3 * FRAME_N, 8, 700), Square(2 * FRAME_N + HOP_N + 5, 5, 300),
          Click(2 * FRAME_N + HOP_N, FRAME_N, 900), Speech >>

\* The sample rates get_fbank is called with.
KEY_RATES == <<SR, 2 * SR>>

AllFinite(audio) == \A n \in 1..Len(audio) : IsFinite(audio[n])
AllZero(audio) == \A n \in 1..Len(audio) : audio[n] = 0

\* features_given on the buffers and filterbanks of this specification,
\* evaluated once: FEATURES[b][k] is its value on the normalized buffer b
\* and the filterbank of rate KEY_RATES[k].
FBANKS == AsSeq([k \in 1..Len(KEY_RATES) |-> mel_filterbank(KEY_RATES[k], N_FFT, N_MELS)])

NORMALIZED == AsSeq([b \in 1..Len(BUFFERS) |-> normalize_audio(BUFFERS[b])])

FEATURES ==
    AsSeq([b \in 1..Len(BUFFERS) |->
        AsSeq([k \in 1..Len(FBANKS) |->
            IF NORMALIZED[b].raised = "none"
            THEN features_given(NORMALIZED[b].audio, SR, FBANKS[k])
            ELSE None])])

Features(audio, sr, fbank) ==
    LET bs == {b \in 1..Len(BUFFERS) :
                  NORMALIZED[b].raised = "none" /\ NORMALIZED[b].audio = audio}
        ks == {k \in 1..Len(FBANKS) : FBANKS[k] = fbank}
    IN IF sr = SR /\ bs # {} /\ ks # {}
       THEN FEATURES[CHOOSE b \in bs : TRUE][CHOOSE k \in ks : TRUE]
       ELSE features_given(audio, sr, fbank)

\* extract_all_features(audio_bytes, sr) on the cache c: what it raised, or
\* the feature set, and the cache afterwards.  st.cache_data returns the
\* value of an earlier call with the same arguments, which is the value
\* computed here.
extract_all_features(c, audio_bytes, sr) ==
    LET returned(g, x) ==
            [raised |-> "none", cache |-> g.cache, f |-> x.f, stages |-> x.stages]
        featured(g, audio) == returned(g, Features(audio, sr, g.fbank))
        normalized(n) ==
            IF n.raised # "none"
            THEN [raised |-> n.raised, at |-> n.at, cache |-> c]
            ELSE featured(get_fbank(c, sr, N_FFT, N_MELS), n.audio)
    IN normalized(normalize_audio(audio_bytes))

\* The analysis handler on the cache c: extract_all_features(ab, SR), then
\* compute_indicators(feats, role).  What it leaves behind is the exception,
\* or the feature set and the indicator record; and the cache.
analysis(c, audio_bytes, role) ==
    LET handled(x) ==
            IF x.raised # "none"
            THEN [op |-> "analyze", audio |-> audio_bytes, role |-> role,
                  before |-> DOMAIN c, cache |-> x.cache,
                  raised |-> x.raised, at |-> x.at]
            ELSE [op |-> "analyze", audio |-> audio_bytes, role |-> role,
                  before |-> DOMAIN c, cache |-> x.cache,
                  raised |-> "none", f |-> x.f, stages |-> x.stages,
                  rec |-> compute_indicators(x.f, role)]
    IN handled(extract_all_features(c, audio_bytes, SR))

\* The caches get_fbank can build from KEY_RATES, one per set of keys, and
\* analysis on each of them, evaluated once.
KeyOf(k) == <<KEY_RATES[k], N_FFT, N_MELS>>

HasKey(i, k) == (i \div Pow2(k - 1)) % 2 = 1

CACHES ==
    AsSeq([i1 \in 1..Pow2(Len(KEY_RATES)) |->
        [key \in {KeyOf(k) : k \in {j \in 1..Len(KEY_RATES) : HasKey(i1 - 1, j)}} |->
            FBANKS[CHOOSE k \in 1..Len(KEY_RATES) : KeyOf(k) = key]]])

ANALYSES ==
    AsSeq([i \in 1..Len(CACHES) |->
        AsSeq([b \in 1..Len(BUFFERS) |->
            AsSeq([r \in 1..Len(ROLE_LIST) |->
                analysis(CACHES[i], BUFFERS[b], ROLE_LIST[r])])])])

Analysis(c, b, r) ==
    LET cs == {i \in 1..Len(CACHES) : CACHES[i] = c}
    IN IF cs # {} THEN ANALYSES[CHOOSE i \in cs : TRUE][b][r]
       ELSE analysis(c, BUFFERS[b], ROLE_LIST[r])

Init == cache = << >> /\ last = None /\ ref = None

GetFbank ==
    \E k \in 1..Len(KEY_RATES) :
        \E g \in {get_fbank(cache, KEY_RATES[k], N_FFT, N_MELS)} :
            /\ cache' = g.cache
            /\ last' = [op |-> "get_fbank", key |-> KeyOf(k),
                        before |-> DOMAIN cache, fbank |-> g.fbank]
            /\ UNCHANGED ref

Analyze ==
    \E b \in 1..Len(BUFFERS), r \in 1..Len(ROLE_LIST), keep \in BOOLEAN :
        /\ keep => (ref = None /\ last.op = "analyze")
        /\ \E a \in {Analysis(cache, b, r)} :
              /\ cache' = a.cache
              /\ last' = a
        /\ ref' = IF keep THEN last ELSE ref

Next == GetFbank \/ Analyze

Spec == Init /\ [][Next]_vars

Returned == last.op = "analyze" /\ last.raised = "none"

\* C3: two analyses of an identical buffer with an identical role return
\* identical indicator records (or raise the same exception), whatever
\* calls ran between them and whatever the filterbank cache held at the
\* time of each.
C3_Deterministic ==
    (last.op = "analyze" /\ ref # None
         /\ ref.audio = last.audio /\ ref.role = last.role) =>
        /\ ref.raised = last.raised
        /\ last.raised = "none" => ref.rec = last.rec

\* The same multi-frame buffer analysed once on an empty cache and once on
\* a cache that already held both keys.
C3_Witness ==
    /\ Returned /\ ref # None
    /\ ref.audio = last.audio /\ ref.role = last.role
    /\ last.stages.frames >= 2
    /\ last.f.pause_count = 1
    /\ ref.before = {}
    /\ last.before = {KeyOf(k) : k \in 1..Len(KEY_RATES)}

\* C4: for an all-zero buffer of at least one frame length the pipeline
\* completes without raising and yields short-term energy 0, voiced ratio
\* 0, an F0 track that is 0 in every frame, jitter_local = jitter_rap =
\* shimmer_local = shimmer_db = 0 and confidence exactly 35.
C4_SilentBuffer ==
    (last.op = "analyze" /\ Len(last.audio) >= FRAME_N /\ AllZero(last.audio)) =>
        /\ last.raised = "none"
        /\ last.f.ste_mean = 0 /\ last.f.ste_std = 0
        /\ last.f.voiced_ratio = 0
        /\ \A t \in 1..Len(last.f.f0_track) : last.f.f0_track[t] = 0
        /\ last.f.jitter_local = 0 /\ last.f.jitter_rap = 0
        /\ last.f.shimmer_local = 0 /\ last.f.shimmer_db = 0
        /\ last.rec.confidence = 35 * ONE

C4_Witness ==
    /\ Returned
    /\ Len(last.audio) >= FRAME_N + HOP_N /\ AllZero(last.audio)
    /\ Len(last.f.f0_track) >= 2
    /\ last.rec.confidence = 35 * ONE

\* C5: for any non-empty buffer with fewer samples than one frame length,
\* whatever its sample values, every extraction stage sees exactly one
\* all-zero frame, no stage raises, and compute_indicators returns a valid
\* record whose confidence is at the floor 35.
C5_ShortBuffer ==
    (last.op = "analyze" /\ Len(last.audio) > 0 /\ Len(last.audio) < FRAME_N) =>
        /\ last.raised = "none"
        /\ last.stages.frames = 1 /\ last.stages.all_zero
        /\ last.stages.mfcc = 1 /\ last.stages.mfcc_d = 1 /\ last.stages.mfcc_dd = 1
        /\ last.stages.f0 = 1 /\ last.stages.lpc = 1
        /\ last.stages.vad = 1 /\ last.stages.spec = 1
        /\ last.rec.risk_level \in {"NOMINAL", "MONITOR", "CAUTION", "ALERT"}
        /\ InRange(last.rec.composite, 0, 100 * ONE)
        /\ last.rec.confidence = 35 * ONE

\* One sample short of a frame, none of the samples zero.
C5_Witness ==
    /\ Returned
    /\ Len(last.audio) = FRAME_N - 1
    /\ \A n \in 1..Len(last.audio) : last.audio[n] # 0
    /\ last.stages.all_zero
    /\ last.rec.confidence = 35 * ONE

\* C6: an empty buffer, or a buffer containing a non-finite sample, is
\* rejected with a typed invalid-input error before any feature is
\* extracted; no indicator record is ever returned for such input.
C6_RejectsInvalid ==
    (last.op = "analyze" /\ (Len(last.audio) = 0 \/ ~AllFinite(last.audio))) =>
        /\ last.raised = "InvalidInput"
        /\ last.at = "extract_all_features"

\* The weaker reading, rejection by any exception at all, fails as well.
C6_NoRecordForInvalid ==
    (last.op = "analyze" /\ (Len(last.audio) = 0 \/ ~AllFinite(last.audio))) =>
        last.raised # "none"

\* C9: within one analysis the MFCC matrix, its delta and delta-delta, the
\* F0 track, the LPC coefficient list, the voice-activity mask and the
\* per-frame spectral statistics all have exactly the frame count
\* frame_signal gives for the buffer.
C9_FrameCounts ==
    Returned =>
        LET N == Len(last.audio)
            n == IF N < FRAME_N THEN 1 ELSE 1 + (N - FRAME_N) \div HOP_N
        IN /\ last.stages.frames = n
           /\ last.stages.mfcc = n /\ last.stages.mfcc_d = n /\ last.stages.mfcc_dd = n
           /\ last.stages.f0 = n /\ Len(last.f.f0_track) = n
           /\ last.stages.lpc = n /\ last.stages.vad = n /\ last.stages.spec = n

\* A buffer that ends exactly on a frame boundary, with several frames.
C9_Witness ==
    /\ Returned
    /\ Len(last.audio) >= FRAME_N + HOP_N
    /\ (Len(last.audio) - FRAME_N) % HOP_N = 0
    /\ ~AllZero(last.audio)
    /\ last.stages.mfcc >= 2 /\ last.stages.mfcc = last.stages.vad

-----------------------------------------------------------------------------
(* Specification SpecF0: estimate_f0_frame on periodic frames of every     *)
(* period up to MaxPeriod, at two sample rates and two frame lengths, and  *)
(* compute_f0_track on tones.  The initial state holds the input.          *)

MaxPeriod == 18
MaxPhase == 2
\* Hops of each of the two tones of a recording.
MaxTone == 4
\* Frames of an F0 track given frame by frame.
MaxTrack == 5

\* A frame of n samples (fx): a square, triangle, pulse or sawtooth wave.
F0Frame(n, shape, period, phase) ==
    AsSeq([i \in 1..n |->
        LET q == (i - 1 + phase) % period
        IN CASE shape = 0 -> IF 2 * q < period THEN ONE ELSE 0 - ONE
             [] shape = 1 -> IF 2 * q < period THEN ONE - (4 * ONE * q) \div period
                             ELSE (4 * ONE * q) \div period - 3 * ONE
             [] shape = 2 -> IF q = 0 THEN ONE ELSE 0
             [] shape = 3 -> ONE - (2 * ONE * q) \div period])

InitF0 ==
    /\ cache = << >> /\ ref = None
    /\ \/ \E n \in {FRAME_N, FRAME_N \div 2}, shape \in 0..3, period \in 1..MaxPeriod,
             phase \in 0..MaxPhase, sr \in {SR, 2 * SR} :
             last = [op |-> "frame", frame |-> F0Frame(n, shape, period, phase),
                     sr |-> sr]
       \/ \E shape \in 0..3, period \in 1..MaxPeriod :
             last = [op |-> "buffer", sr |-> SR,
                     frame |-> F0Frame(FRAME_N + 2 * HOP_N + period, shape, period, 0)]
       \/ \E h1 \in 0..MaxTone, h2 \in 0..MaxTone, p1 \in {4, 7, 12},
             p2 \in {4, 7, 12}, shape \in {0, 1} :
             last = [op |-> "recording", sr |-> SR,
                     frame |-> F0Frame(h1 * HOP_N, shape, p1, 0)
                               \o F0Frame(h2 * HOP_N, shape, p2, 0)
                               \o Zeros(FRAME_N)]
       \/ \E n \in 0..MaxTrack :
             \E f0t \in [1..n -> {0} \cup {(SR * ONE) \div lag : lag \in {5, 8, 10}}] :
             last = [op |-> "track", sr |-> SR, frame |-> << >>, f0 |-> AsSeq(f0t)]

EstimateF0 ==
    /\ last.op = "frame"
    /\ last' = [op |-> "estimate_f0_frame", frame |-> last.frame, sr |-> last.sr,
                lag |-> f0_lag(last.frame, last.sr, F0_MIN, F0_MAX),
                f0 |-> <<estimate_f0_frame(last.frame, last.sr)>>]
    /\ UNCHANGED <<cache, ref>>

TrackF0 ==
    /\ last.op = "buffer"
    /\ last' = [op |-> "compute_f0_track", frame |-> last.frame, sr |-> last.sr,
                lag |-> 0, f0 |-> compute_f0_track(last.frame, last.sr)]
    /\ UNCHANGED <<cache, ref>>

\* compute_jitter_shimmer on a recording of two tones and a silence; the
\* record keeps the F0 track the function computes first.
JitterShimmer ==
    /\ last.op = "recording"
    /\ last' = [op |-> "compute_jitter_shimmer", frame |-> last.frame, sr |-> last.sr,
                lag |-> 0, f0 |-> compute_f0_track(last.frame, last.sr),
                js |-> compute_jitter_shimmer(last.frame, last.sr)]
    /\ UNCHANGED <<cache, ref>>

\* The f0_slope entry of extract_all_features (lines 483 and 493), from the
\* F0 track on.
F0Slope ==
    /\ last.op = "track"
    /\ last' = [op |-> "f0_slope", frame |-> << >>, sr |-> last.sr, lag |-> 0,
                f0 |-> last.f0,
                f0_slope |-> LET vf0 == voiced_f0(last.f0)
                             IN IF Len(vf0) > 2 THEN polyfit_slope(vf0) ELSE 0]
    /\ UNCHANGED <<cache, ref>>

NextF0 == EstimateF0 \/ TrackF0 \/ JitterShimmer \/ F0Slope

SpecF0 == InitF0 /\ [][NextF0]_vars

\* C10: every value estimate_f0_frame returns, and so every entry of the F0
\* track, is exactly 0 or lies within [60, 500] Hz, and a selected lag is
\* strictly inside the lag window [floor(sr/500), floor(sr/60)].
C10_F0InRange ==
    /\ last.op \in {"estimate_f0_frame", "compute_f0_track"} =>
          \A t \in 1..Len(last.f0) :
              last.f0[t] = 0 \/ (60 * ONE <= last.f0[t] /\ last.f0[t] <= 500 * ONE)
    /\ last.op = "estimate_f0_frame" =>
          /\ last.f0[1] = 0 <=> last.lag = 0
          /\ last.lag # 0 =>
                /\ last.sr \div 500 < last.lag /\ last.lag < last.sr \div 60
                /\ last.f0[1] = (last.sr * ONE) \div last.lag

\* A voiced frame whose lag is the smallest one the window admits.
C10_Witness ==
    /\ last.op = "estimate_f0_frame"
    /\ last.lag = last.sr \div 500 + 1
    /\ last.f0[1] > 0

\* A frame that is not silent and is declared unvoiced.
C10_WitnessUnvoiced ==
    /\ last.op = "estimate_f0_frame"
    /\ \E j \in 1..Len(last.frame) : last.frame[j] # 0
    /\ last.f0[1] = 0


\* C21: compute_jitter_shimmer returns jitter_local, jitter_rap,
\* shimmer_local and shimmer_db all equal to 0 whenever the F0 track has
\* fewer than 4 voiced frames; with 4 or more voiced frames it does not take
\* that fallback: a track whose voiced periods differ has a positive
\* jitter_local and a positive jitter_rap.
C21_Fallback ==
    last.op = "compute_jitter_shimmer" =>
        LET voiced == voiced_f0(last.f0)
        IN /\ Len(voiced) < 4 =>
                 /\ last.js.jitter_local = 0 /\ last.js.jitter_rap = 0
                 /\ last.js.shimmer_local = 0 /\ last.js.shimmer_db = 0
           /\ (Len(voiced) >= 4 /\ \E i \in 1..(Len(voiced) - 1) :
                                        voiced[i] # voiced[i + 1]) =>
                 /\ last.js.jitter_local > 0
                 /\ last.js.jitter_rap > 0

\* A track of exactly 3 voiced frames of two different pitches, reported
\* as zeros.
C21_Witness ==
    /\ last.op = "compute_jitter_shimmer"
    /\ Len(voiced_f0(last.f0)) = 3
    /\ \E i \in 1..2 : voiced_f0(last.f0)[i] # voiced_f0(last.f0)[i + 1]
    /\ last.js.jitter_local = 0

\* A track of exactly 4 voiced frames of two different pitches, with a
\* positive jitter.
C21_WitnessFour ==
    /\ last.op = "compute_jitter_shimmer"
    /\ Len(voiced_f0(last.f0)) = 4
    /\ last.js.jitter_local > 0


\* b is the least-squares slope, rounded toward zero to the grid, of the
\* values ys against the abscissae xs: the normal equation
\* b * (n*Sxx - Sx*Sx) = n*Sxy - Sx*Sy holds to within the rounding.
C22_Fits(xs, ys, b) ==
    LET n == Len(ys)
        Sx == SumSeq(xs)
        Sy == SumSeq(ys)
        Sxy == SumRange([i \in 1..n |-> xs[i] * ys[i]], 1, n)
        Sxx == SumRange([i \in 1..n |-> xs[i] * xs[i]], 1, n)
    IN Abs(b * (n * Sxx - Sx * Sx) - (n * Sxy - Sx * Sy)) < n * Sxx - Sx * Sx

\* The frame indices, in the full track, of the voiced frames.
C22_VoicedAt(f0t) ==
    SelectRange(AsSeq([t \in 1..Len(f0t) |-> t]),
                AsSeq([t \in 1..Len(f0t) |-> f0t[t] > 0]), 1, Len(f0t))

\* C22 as stated: the F0 slope is the least-squares fit of the voiced F0
\* values against their frame indices in the full F0 track, so that unvoiced
\* gaps between voiced frames stretch the abscissa, and is 0 when fewer than
\* 3 frames are voiced.
C22_SlopeOverTrack ==
    last.op = "f0_slope" =>
        LET vf0 == voiced_f0(last.f0)
        IN IF Len(vf0) < 3 THEN last.f0_slope = 0
           ELSE C22_Fits(C22_VoicedAt(last.f0), vf0, last.f0_slope)

\* C22, amended: the F0 slope is the least-squares fit of the voiced F0
\* values against their positions 0, 1, .., n-1 in the sequence of voiced
\* frames, whatever unvoiced frames lie between them, and is 0 when fewer
\* than 3 frames are voiced.
C22_SlopeOverVoiced ==
    last.op = "f0_slope" =>
        LET vf0 == voiced_f0(last.f0)
        IN IF Len(vf0) < 3 THEN last.f0_slope = 0
           ELSE C22_Fits(AsSeq([i \in 1..Len(vf0) |-> i - 1]), vf0, last.f0_slope)

\* Three voiced frames of rising pitch with an unvoiced frame between the
\* second and the third: the slope is that of the three values one frame
\* apart.
C22_Witness ==
    /\ last.op = "f0_slope"
    /\ Len(last.f0) = 4
    /\ last.f0[3] = 0
    /\ 0 < last.f0[1] /\ last.f0[1] < last.f0[2] /\ last.f0[2] < last.f0[4]
    /\ last.f0_slope = (last.f0[4] - last.f0[1]) \div 2

-----------------------------------------------------------------------------
(* Specification SpecProsody: compute_prosody on a tone, a gap of zeros    *)
(* and the same tone again, after a lead-in of zeros that may be empty;    *)
(* and compute_prosody from the mask on, for the masks vad_energy_zcr can  *)
(* return with up to MaxTail frames after the frames its thresholds are    *)
(* taken from.                                                             *)

MaxLead == 2        \* the lead-in is 0..MaxLead times ten hops of zeros
MaxAmp == 2         \* tone amplitudes

Tone(n, shape, period, amp) ==
    IF shape = 0 THEN Square(n, period, amp) ELSE Triangle(n, period, amp)

ToneGapTone(lead, tone, gap, shape, period, amp) ==
    Zeros(lead) \o Tone(tone, shape, period, amp) \o Zeros(gap)
        \o Tone(tone, shape, period, amp)

MaxTail == 5        \* frames of the mask after the first nf

\* A signal is up to MaxBlocks hops at one level and as many at another.
MaxBlocks == 14

\* A mask of vad_energy_zcr, nf + len frames long.  A voiced frame has more
\* than five times the mean energy of the first nf frames, so at most one
\* of those is voiced: frame p (none when p = 0).  The later frames are the
\* binary digits of bits.
VadMask(p, len, bits) ==
    LET nf == Max2(1, SR \div (10 * HOP_N))
    IN AsSeq([i \in 1..(nf + len) |->
           IF i <= nf THEN (IF i = p THEN 1 ELSE 0)
           ELSE (bits \div Pow2(i - nf - 1)) % 2])

InitProsody ==
    /\ cache = << >> /\ ref = None
    /\ \/ \E i \in 0..MaxLead, tone \in {SR \div 2, SR}, gap \in {SR \div 4, SR \div 2},
             shape \in 0..1, period \in {8, 20, 50, 100}, amp \in 1..MaxAmp :
             last = [op |-> "recorded", lead |-> 10 * HOP_N * i, tone |-> tone,
                     gap |-> gap, period |-> period, shape |-> shape, amp |-> amp]
       \/ \E p \in 0..Max2(1, SR \div (10 * HOP_N)), len \in 0..MaxTail,
             sr \in {SR, 2 * SR} :
             \E bits \in 0..(Pow2(len) - 1) :
                 last = [op |-> "mask", voiced |-> VadMask(p, len, bits), sr |-> sr]
       \/ \E n1 \in 0..MaxBlocks, n2 \in 0..MaxBlocks, a \in 0..3, b \in 0..3 :
             /\ n1 + n2 > 0
             /\ last = [op |-> "signal", sr |-> SR,
                        audio |-> Square(n1 * HOP_N, 50, 100 * a)
                                  \o Square(n2 * HOP_N, 50, 100 * b)]

Prosody ==
    /\ last.op = "recorded"
    /\ \E n \in {normalize_audio(ToneGapTone(last.lead, last.tone, last.gap,
                                             last.shape, last.period, 300 * last.amp))} :
          last' = [last EXCEPT !.op = "compute_prosody"] @@
                  [pros |-> compute_prosody(n.audio, SR)]
    /\ UNCHANGED <<cache, ref>>

\* compute_prosody from the mask on; pauses are the differences pe - ps
\* that it turns into durations.
ProsodyOfMask ==
    /\ last.op = "mask"
    /\ last' = [op |-> "prosody_of", voiced |-> last.voiced, sr |-> last.sr,
                pauses |-> pause_frames(last.voiced),
                pros |-> prosody_of(last.voiced, last.sr)]
    /\ UNCHANGED <<cache, ref>>

\* compute_prosody on a signal of two levels; the record keeps the mask
\* vad_energy_zcr returns to it and the energy of each frame (as the sum of
\* squares over the frame).
ProsodyOfSignal ==
    /\ last.op = "signal"
    /\ \E frames \in {frame_signal(last.audio, FRAME_N, HOP_N)} :
          last' = [op |-> "vad_energy_zcr", sr |-> last.sr,
                   energy |-> AsSeq([t \in 1..Len(frames) |-> frame_sq(frames[t])]),
                   voiced |-> vad_energy_zcr(last.audio, last.sr),
                   pros |-> compute_prosody(last.audio, last.sr)]
    /\ UNCHANGED <<cache, ref>>

NextProsody == Prosody \/ ProsodyOfMask \/ ProsodyOfSignal

SpecProsody == InitProsody /\ [][NextProsody]_vars

\* C7: for a steady tone from sample 0, then 0.5 s of zeros, then the same
\* tone, compute_prosody reports pause_count = 1 and pause_mean_dur within
\* one hop of 0.5 s.
C7_OnePause ==
    (last.op = "compute_prosody" /\ last.lead = 0 /\ 2 * last.gap = SR) =>
        /\ last.pros.pause_count = 1
        /\ Abs(last.pros.pause_mean_dur - ONE \div 2) <= (HOP_N * ONE) \div SR

\* The same pattern after a lead-in of silence is reported as one pause of
\* the length of the gap.
C7_AfterLeadIn ==
    /\ last.op = "compute_prosody" /\ last.lead > 0 /\ 2 * last.gap = SR
    /\ last.pros.pause_count = 1
    /\ Abs(last.pros.pause_mean_dur - ONE \div 2) <= 2 * ((HOP_N * ONE) \div SR)

\* The maximal runs of unvoiced frames of the mask m that begin after a
\* voiced frame (and so after the first voiced frame), as the set of their
\* first frames; with closed, only those that a voiced frame ends.
C20_RunStarts(m, closed) ==
    {s \in 2..Len(m) :
        /\ m[s] = 0 /\ m[s - 1] = 1
        /\ closed => \E e \in (s + 1)..Len(m) : m[e] = 1}

\* The length of the maximal unvoiced run of m that begins at frame s.
C20_RunLength(m, s) ==
    Cardinality({e \in s..Len(m) : \A i \in s..e : m[i] = 0})

\* The pauses counted are the runs that begin at starts, in order, each
\* with the duration length * hop / sampleRate.
C20_PausesAre(starts) ==
    LET m == last.voiced
        nth(i) == CHOOSE s \in starts : Cardinality({u \in starts : u <= s}) = i
        dur(n) == (n * HOP_N * ONE) \div last.sr
    IN /\ Len(last.pauses) = Cardinality(starts)
       /\ last.pros.pause_count = Cardinality(starts)
       /\ \A i \in 1..Len(last.pauses) :
              last.pauses[i] = C20_RunLength(m, nth(i))
       /\ last.pros.pause_total_dur =
              SumSeq([i \in 1..Len(last.pauses) |-> dur(last.pauses[i])])
       /\ \A i \in 1..Len(last.pauses) :
              dur(last.pauses[i]) <= last.pros.pause_max_dur
       /\ \A s \in 1..Len(m) :
              (m[s] = 0 /\ \A i \in 1..s : m[i] = 0) => s \notin starts

\* C20 as claimed: for every voice-activity mask compute_prosody counts as
\* a pause each maximal run of unvoiced frames that begins after the first
\* voiced frame, never the run before the first voiced frame, each with
\* the duration (run length in frames) * hop / sampleRate.
C20_EveryLaterRun ==
    last.op = "prosody_of" => C20_PausesAre(C20_RunStarts(last.voiced, FALSE))

\* C20 as amended: the runs counted are those that begin after the first
\* voiced frame and are ended by a voiced frame; an unvoiced run that
\* lasts to the end of the mask is not counted, nor is the run before the
\* first voiced frame.
C20_ClosedRuns ==
    last.op = "prosody_of" => C20_PausesAre(C20_RunStarts(last.voiced, TRUE))

\* A mask that begins and ends unvoiced, with two pauses of different
\* lengths between its voiced frames.
C20_Witness ==
    /\ last.op = "prosody_of"
    /\ last.voiced[1] = 0 /\ last.voiced[Len(last.voiced)] = 0
    /\ last.pros.pause_count = 2
    /\ last.pauses[1] > last.pauses[2]


\* C24: the thresholds come from the first min(10, frame count) frames of
\* the same recording, so whenever no frame has more than 5 times the mean
\* energy of those frames the mask is unvoiced in every frame, and
\* speech_ratio is 0, pause_count is 0 and there is no voiced run.
C24_NoFrameAboveStart ==
    last.op = "vad_energy_zcr" =>
        LET T == Len(last.energy)
            m == Min2(10, T)
            start == SumRange(last.energy, 1, m)
        IN (\A t \in 1..T : m * last.energy[t] <= 5 * start) =>
              /\ Len(last.voiced) = T
              /\ \A t \in 1..T : last.voiced[t] = 0
              /\ last.pros.speech_ratio = 0
              /\ last.pros.pause_count = 0
              /\ voiced_runs(last.voiced) = << >>
              /\ last.pros.voiced_run_mean = 0

\* A signal of the same non-zero energy in every frame, more than 10 frames
\* long, with an all-unvoiced mask.
C24_Witness ==
    /\ last.op = "vad_energy_zcr"
    /\ Len(last.energy) > 10
    /\ last.energy[1] > 0
    /\ \A t \in 1..Len(last.energy) : last.energy[t] = last.energy[1]
    /\ \A t \in 1..Len(last.voiced) : last.voiced[t] = 0

\* A recording of a single frame that is not silent, declared unvoiced.
C24_WitnessOneFrame ==
    /\ last.op = "vad_energy_zcr"
    /\ Len(last.energy) = 1 /\ last.energy[1] > 0
    /\ last.voiced = <<0>>

\* A signal that is louder after its first 10 frames, with voiced frames.
C24_WitnessVoiced ==
    /\ last.op = "vad_energy_zcr"
    /\ last.energy[1] > 0
    /\ \E t \in 1..Len(last.voiced) : last.voiced[t] = 1


\* C25: for every mask, pause_count equals max(0, number of voiced runs - 1),
\* every counted pause is strictly positive (in frames, and so in seconds),
\* and the lengths of the voiced runs sum to the number of voiced frames.
C25_CountsAgree ==
    last.op \in {"prosody_of", "vad_energy_zcr"} =>
        LET runs == voiced_runs(last.voiced)
            pauses == pause_frames(last.voiced)
        IN /\ last.pros.pause_count = Max2(0, Len(runs) - 1)
           /\ Len(pauses) = last.pros.pause_count
           /\ \A i \in 1..Len(pauses) : pauses[i] > 0
           /\ last.pros.pause_count > 0 =>
                 /\ last.pros.pause_mean_dur > 0
                 /\ last.pros.pause_total_dur >= last.pros.pause_max_dur
           /\ SumSeq(runs) = SumSeq(last.voiced)
           /\ runs # << >> <=> last.pros.voiced_run_mean > 0

\* A mask that begins unvoiced and ends voiced, with three voiced runs and
\* two pauses.
C25_Witness ==
    /\ last.op = "prosody_of"
    /\ last.voiced[1] = 0
    /\ last.voiced[Len(last.voiced)] = 1
    /\ Len(voiced_runs(last.voiced)) = 3
    /\ last.pros.pause_count = 2

-----------------------------------------------------------------------------
(* Specification SpecConc: two analyses running at once on one             *)
(* _FBANK_CACHE, with no lock.  last.th[t] is analysis t: its position pc,  *)
(* its buffer b and role r, the matrix it has built, the matrix get_fbank   *)
(* returned to it and what the handler left behind.  A step is one         *)
(* statement of get_fbank (the test of the key, the construction of the    *)
(* matrix, the store, the read that is returned), or the part of the       *)
(* analysis before or after the call; the dictionary operations are atomic *)
(* and the matrix is built in an array of the call's own.                  *)

\* A variant of analysis_step that stores the array before it is filled:
\* the test of a missing key stores a matrix of zeros, and the construction
\* fills the stored entry.
analysis_step_in_place(c, th) ==
    LET key == <<SR, N_FFT, N_MELS>>
        put(m) == [k \in DOMAIN c \cup {key} |-> IF k = key THEN m ELSE c[k]]
        n == NORMALIZED[th.b]
    IN CASE th.pc = "start" ->
              [cache |-> c,
               th |-> IF n.raised # "none"
                      THEN [th EXCEPT !.pc = "done",
                                      !.out = [raised |-> n.raised, at |-> n.at]]
                      ELSE [th EXCEPT !.pc = "check"]]
         [] th.pc = "check" ->
              IF key \in DOMAIN c THEN [cache |-> c, th |-> [th EXCEPT !.pc = "return"]]
              ELSE [cache |-> put(AsSeq([m \in 1..N_MELS |->
                                     AsSeq([k \in 1..(N_FFT \div 2 + 1) |-> 0])])),
                    th |-> [th EXCEPT !.pc = "build"]]
         [] th.pc = "build" ->
              [cache |-> put(FBANKS[1]),
               th |-> [th EXCEPT !.pc = "store", !.built = FBANKS[1]]]
         [] th.pc = "store" ->
              [cache |-> c, th |-> [th EXCEPT !.pc = "return"]]
         [] th.pc = "return" ->
              [cache |-> c, th |-> [th EXCEPT !.pc = "rest", !.fbank = c[key]]]
         [] th.pc = "rest" ->
              [cache |-> c,
               th |-> [th EXCEPT !.pc = "done",
                          !.out = [raised |-> "none",
                                   rec |-> compute_indicators(
                                               Features(n.audio, SR, th.fbank).f,
                                               ROLE_LIST[th.r])]]]

\* One step of the analysis th on the cache c: the cache and the analysis
\* afterwards.  "start" is extract_all_features up to the call of get_fbank
\* in compute_mfcc; "check", "build", "store" and "return" are get_fbank;
\* "rest" is the remainder of extract_all_features and compute_indicators.
\* The matrix built is mel_filterbank(SR, N_FFT, N_MELS), kept in FBANKS[1].
analysis_step(c, th) ==
    LET key == <<SR, N_FFT, N_MELS>>
        put(m) == [k \in DOMAIN c \cup {key} |-> IF k = key THEN m ELSE c[k]]
        n == NORMALIZED[th.b]
    IN CASE th.pc = "start" ->
              [cache |-> c,
               th |-> IF n.raised # "none"
                      THEN [th EXCEPT !.pc = "done",
                                      !.out = [raised |-> n.raised, at |-> n.at]]
                      ELSE [th EXCEPT !.pc = "check"]]
         [] th.pc = "check" ->
              [cache |-> c,
               th |-> [th EXCEPT !.pc = IF key \in DOMAIN c THEN "return" ELSE "build"]]
         [] th.pc = "build" ->
              [cache |-> c, th |-> [th EXCEPT !.pc = "store", !.built = FBANKS[1]]]
         [] th.pc = "store" ->
              [cache |-> put(th.built), th |-> [th EXCEPT !.pc = "return"]]
         [] th.pc = "return" ->
              [cache |-> c, th |-> [th EXCEPT !.pc = "rest", !.fbank = c[key]]]
         [] th.pc = "rest" ->
              [cache |-> c,
               th |-> [th EXCEPT !.pc = "done",
                          !.out = [raised |-> "none",
                                   rec |-> compute_indicators(
                                               Features(n.audio, SR, th.fbank).f,
                                               ROLE_LIST[th.r])]]]

InitConc ==
    /\ cache = << >> /\ ref = None
    /\ \E b1 \in 1..Len(BUFFERS), b2 \in 1..Len(BUFFERS),
          r1 \in 1..Len(ROLE_LIST), r2 \in 1..Len(ROLE_LIST) :
          last = [op |-> "concurrent",
                  th |-> <<[pc |-> "start", b |-> b1, r |-> r1, built |-> << >>,
                            fbank |-> << >>, out |-> None],
                           [pc |-> "start", b |-> b2, r |-> r2, built |-> << >>,
                            fbank |-> << >>, out |-> None]>>]

\* Analysis t takes its next step.
Step(t) ==
    /\ last.th[t].pc # "done"
    /\ \E x \in {analysis_step(cache, last.th[t])} :
          /\ cache' = x.cache
          /\ last' = [last EXCEPT !.th[t] = x.th]
    /\ UNCHANGED ref

NextConc == \E t \in 1..2 : Step(t)

SpecConc == InitConc /\ [][NextConc]_vars

\* C19: under every interleaving of two analyses, both finding the key
\* absent and both storing included, each analysis ends with what it ends
\* with when run alone on an empty cache, and the matrix get_fbank returns
\* to it, like every matrix in the cache, is the complete filterbank of its
\* key.
C19_Isolated ==
    /\ \A k \in DOMAIN cache : cache[k] = mel_filterbank(k[1], k[2], k[3])
    /\ \A t \in 1..2 :
          LET th == last.th[t]
              alone == Analysis(<< >>, th.b, th.r)
          IN /\ th.pc \in {"rest", "done"} =>
                   (alone.raised = "none" =>
                        th.fbank = mel_filterbank(SR, N_FFT, N_MELS))
             /\ th.pc = "done" =>
                   /\ th.out.raised = alone.raised
                   /\ alone.raised = "none" => th.out.rec = alone.rec
                   /\ alone.raised # "none" => th.out.at = alone.at

\* Both analyses found the key absent, both built and stored the matrix,
\* and both have returned a record, of different buffers.
C19_Witness ==
    /\ \A t \in 1..2 :
          /\ last.th[t].pc = "done"
          /\ last.th[t].built # << >>
          /\ last.th[t].out.raised = "none"
    /\ last.th[1].b # last.th[2].b
    /\ last.th[1].out.rec # last.th[2].out.rec

-----------------------------------------------------------------------------
(* Module 3 (ATC training): the session counters, the adaptive difficulty, *)
(* the pilot-initiates conversation and the chain session.                 *)
(*                                                                         *)
(* Specification SpecSession: the handlers of the sidebar and of the       *)
(* training tabs, in any order.  last.ss is st.session_state after the     *)
(* handler last.op; last.eval is the pass_fail of the evaluation it asked  *)
(* for and last.gen the outcome of the generation it asked for ("raised":  *)
(* the remote call raised, and the script run ended there).  The interaction*)
(* mode is a widget, free at every run.  A scenario and a transmission are  *)
(* kept as what the handlers test of them: that a scenario is there, the   *)
(* role and the scored flag of an entry.  Evaluations stop at MaxAttempts, *)
(* the conversation at MaxHistory entries and the chain at MaxChain.       *)

MaxAttempts == 3
MaxHistory == 4
MaxChain == 5

\* list(DIFFICULTY_LEVELS.keys())
DIFFICULTY_LEVELS == <<"Student Pilot", "Private Pilot", "Commercial", "Expert / ATPL">>

\* init_state(): the defaults of the keys the handlers below read or write.
init_state ==
    [total_attempts |-> 0, correct_responses |-> 0, streaks |-> 0,
     difficulty |-> "Student Pilot", auto_adapt |-> TRUE,
     current_scenario |-> FALSE,
     pi_scenario |-> FALSE, pi_step |-> "init", pi_conv_history |-> << >>,
     conv_active |-> FALSE, conv_chain |-> << >>]

\* A variant of adaptive_difficulty that adapts whether or not auto_adapt is
\* set.
adaptive_difficulty_always(ss) ==
    LET levels == DIFFICULTY_LEVELS
        idx == CHOOSE i \in 1..Len(levels) : levels[i] = ss.difficulty
        total == Max2(ss.total_attempts, 1)
    IN IF ss.total_attempts < 3 THEN ss
       ELSE IF 100 * ss.correct_responses > 85 * total /\ idx < Len(levels)
       THEN [ss EXCEPT !.difficulty = levels[idx + 1]]
       ELSE IF 100 * ss.correct_responses < 50 * total /\ idx > 1
       THEN [ss EXCEPT !.difficulty = levels[idx - 1]]
       ELSE ss

\* adaptive_difficulty(): acc > 0.85 is 100 * correct > 85 * total, and
\* acc < 0.50 is 100 * correct < 50 * total; idx counts from 1.
adaptive_difficulty(ss) ==
    LET levels == DIFFICULTY_LEVELS
        idx == CHOOSE i \in 1..Len(levels) : levels[i] = ss.difficulty
        total == Max2(ss.total_attempts, 1)
    IN IF ~ss.auto_adapt \/ ss.total_attempts < 3 THEN ss
       ELSE IF 100 * ss.correct_responses > 85 * total /\ idx < Len(levels)
       THEN [ss EXCEPT !.difficulty = levels[idx + 1]]
       ELSE IF 100 * ss.correct_responses < 50 * total /\ idx > 1
       THEN [ss EXCEPT !.difficulty = levels[idx - 1]]
       ELSE ss

\* What an evaluation returns as pass_fail: the two grades asked for, the
\* "ERROR" of a reply that does not parse, and a reply without the key.
PASS_FAIL == {"PASS", "FAIL", "ERROR", ""}

\* A variant of count_attempt that leaves the streak alone on a reply that
\* is not a PASS.
count_attempt_keep_streak(ss, pass_fail) ==
    [ss EXCEPT !.total_attempts = @ + 1,
               !.correct_responses = IF pass_fail = "PASS" THEN @ + 1 ELSE @,
               !.streaks = IF pass_fail = "PASS" THEN @ + 1 ELSE @]

\* The counters after an evaluation, as each of the four evaluating handlers
\* updates them.
count_attempt(ss, pass_fail) ==
    [ss EXCEPT !.total_attempts = @ + 1,
               !.correct_responses = IF pass_fail = "PASS" THEN @ + 1 ELSE @,
               !.streaks = IF pass_fail = "PASS" THEN @ + 1 ELSE 0]

\* The index of pending_atc in the chain: the last ATC entry not yet scored,
\* 0 when there is none.
pending_atc(chain) ==
    LET P == {i \in 1..Len(chain) : chain[i].role = "atc" /\ ~chain[i].scored}
    IN IF P = {} THEN 0 ELSE CHOOSE i \in P : \A j \in P : j <= i

\* for ex in conv_chain: if ex is pending_atc: ex["scored"] = True
mark_scored(chain, p) ==
    AsSeq([i \in 1..Len(chain) |-> IF i = p THEN [chain[i] EXCEPT !.scored = TRUE]
                                   ELSE chain[i]])

\* A variant of do_chain_rb that appends the pilot entry and the next ATC
\* call without marking the pending one.
do_chain_rb_unmarked(ss, fb, next_ex) ==
    LET said == [count_attempt(ss, fb) EXCEPT
                   !.conv_chain = Append(ss.conv_chain,
                       [role |-> "pilot", scored |-> TRUE, text |-> "readback"])]
    IN CASE fb = "raised" -> ss
         [] next_ex = "raised" -> said
         [] next_ex = "complete" ->
              [said EXCEPT !.conv_chain = Append(@, [role |-> "atc", scored |-> TRUE,
                                                     text |-> "SESSION COMPLETE"]),
                           !.conv_active = FALSE]
         [] OTHER ->
              [said EXCEPT !.conv_chain = Append(@, [role |-> "atc", scored |-> FALSE,
                                                     text |-> "atc"])]

\* do_chain_rb(submit_text): fb is the pass_fail of evaluate_response or
\* "raised", next_ex what generate_next_exchange does: it raises, reports
\* session_complete, or returns the next call.
do_chain_rb(ss, fb, next_ex) ==
    LET said == [count_attempt(ss, fb) EXCEPT
                   !.conv_chain = Append(mark_scored(ss.conv_chain,
                                                     pending_atc(ss.conv_chain)),
                       [role |-> "pilot", scored |-> TRUE, text |-> "readback"])]
    IN CASE fb = "raised" -> ss
         [] next_ex = "raised" -> said
         [] next_ex = "complete" ->
              [said EXCEPT !.conv_chain = Append(@, [role |-> "atc", scored |-> TRUE,
                                                     text |-> "SESSION COMPLETE"]),
                           !.conv_active = FALSE]
         [] OTHER ->
              [said EXCEPT !.conv_chain = Append(@, [role |-> "atc", scored |-> FALSE,
                                                     text |-> "atc"])]

\* The Skip button of the chain tab.
chain_skip(ss, nx_sk) ==
    LET said == [ss EXCEPT
                   !.conv_chain = Append(mark_scored(ss.conv_chain,
                                                     pending_atc(ss.conv_chain)),
                       [role |-> "pilot", scored |-> TRUE, text |-> "[SKIPPED]"])]
    IN CASE nx_sk \in {"raised", "complete"} -> said
         [] OTHER ->
              [said EXCEPT !.conv_chain = Append(@, [role |-> "atc", scored |-> FALSE,
                                                     text |-> "atc"])]

\* What a run of the script shows in the chain tab: the form that starts a
\* chain, the exchange to read back, or the Session Complete summary with
\* its number of exchanges.
chain_tab(ss) ==
    IF ~ss.conv_active THEN [view |-> "start", exchanges |-> 0]
    ELSE IF pending_atc(ss.conv_chain) # 0 THEN [view |-> "exchange", exchanges |-> 0]
    ELSE [view |-> "complete",
          exchanges |-> Cardinality({i \in 1..Len(ss.conv_chain) :
                                        ss.conv_chain[i].role = "pilot"})]

Handled(op, eval, gen, ss) == [op |-> op, eval |-> eval, gen |-> gen, ss |-> ss]

InitSession ==
    /\ cache = << >> /\ ref = None
    /\ last = Handled("init_state", "", "", init_state)

\* The sidebar: the difficulty slider and the auto-adapt toggle.
Sidebar ==
    /\ \E d \in 1..Len(DIFFICULTY_LEVELS), a \in BOOLEAN :
          last' = Handled("sidebar", "", "",
                          [last.ss EXCEPT !.difficulty = DIFFICULTY_LEVELS[d],
                                          !.auto_adapt = a])
    /\ UNCHANGED <<cache, ref>>

\* The Reset Session button: of the keys kept here it resets the counters
\* (int), current_scenario, conv_chain (list) and conv_active.
ResetSession ==
    /\ last' = Handled("reset_session", "", "",
                       [last.ss EXCEPT !.total_attempts = 0, !.correct_responses = 0,
                                       !.streaks = 0, !.current_scenario = FALSE,
                                       !.conv_chain = << >>, !.conv_active = FALSE])
    /\ UNCHANGED <<cache, ref>>

\* The Generate Scenario / Set Up Situation button.  The generator raises,
\* returns text that does not parse, or returns a scenario.
GenerateScenario ==
    /\ \E pilot_initiates \in BOOLEAN, raw \in {"raised", "parse_error", "ok"} :
          LET adapted == adaptive_difficulty(last.ss)
              cleared == [adapted EXCEPT !.pi_scenario = FALSE, !.pi_step = "init",
                                         !.pi_conv_history = << >>]
              after == CASE raw = "raised" -> cleared
                         [] pilot_initiates /\ raw = "ok" ->
                              [cleared EXCEPT !.pi_scenario = TRUE,
                                              !.pi_step = "pilot_call"]
                         [] pilot_initiates -> cleared
                         [] OTHER -> [cleared EXCEPT !.current_scenario = (raw = "ok")]
          IN last' = Handled("generate_scenario", "", raw, after)
                     @@ [was |-> last.ss.difficulty]
    /\ UNCHANGED <<cache, ref>>

\* do_eval_m3: Submit & Evaluate in the ATC-speaks-first mode.
DoEvalM3 ==
    /\ last.ss.current_scenario
    /\ last.ss.total_attempts < MaxAttempts
    /\ \E fb3 \in PASS_FAIL \cup {"raised"} :
          last' = Handled("do_eval_m3", fb3, "",
                          IF fb3 = "raised" THEN last.ss ELSE count_attempt(last.ss, fb3))
    /\ UNCHANGED <<cache, ref>>

\* do_pi_initial_call: Transmit to ATC.
DoPiInitialCall ==
    /\ last.ss.pi_scenario /\ last.ss.pi_step = "pilot_call"
    /\ last.ss.total_attempts < MaxAttempts
    /\ Len(last.ss.pi_conv_history) + 2 <= MaxHistory
    /\ \E eval_res \in PASS_FAIL \cup {"raised"}, atc_resp \in {"raised", "ok"} :
          LET called == [count_attempt(last.ss, eval_res) EXCEPT
                            !.pi_conv_history = Append(@, "pilot")]
              answered == [called EXCEPT !.pi_conv_history = Append(@, "atc"),
                                         !.pi_step = "pilot_readback"]
          IN last' = Handled("do_pi_initial_call", eval_res,
                             IF eval_res = "raised" THEN "" ELSE atc_resp,
                             CASE eval_res = "raised" -> last.ss
                               [] atc_resp = "raised" -> called
                               [] OTHER -> answered)
    /\ UNCHANGED <<cache, ref>>

\* do_pi_readback: Submit Readback.
DoPiReadback ==
    /\ last.ss.pi_scenario /\ last.ss.pi_step = "pilot_readback"
    /\ last.ss.total_attempts < MaxAttempts
    /\ Len(last.ss.pi_conv_history) < MaxHistory
    /\ \E rb_eval \in PASS_FAIL \cup {"raised"} :
          last' = Handled("do_pi_readback", rb_eval, "",
                          IF rb_eval = "raised" THEN last.ss
                          ELSE [count_attempt(last.ss, rb_eval) EXCEPT
                                   !.pi_conv_history = Append(@, "pilot"),
                                   !.pi_step = "continue"])
    /\ UNCHANGED <<cache, ref>>

\* Continue - I Call ATC Again.
PiContinue ==
    /\ last.ss.pi_scenario /\ last.ss.pi_step = "continue"
    /\ Len(last.ss.pi_conv_history) < MaxHistory
    /\ \E next_ex \in {"raised", "ok"} :
          last' = Handled("pi_continue", "", next_ex,
                          IF next_ex = "raised" THEN last.ss
                          ELSE [last.ss EXCEPT !.pi_conv_history = Append(@, "atc"),
                                               !.pi_step = "pilot_readback"])
    /\ UNCHANGED <<cache, ref>>

\* New Scenario from Scratch.
PiNewScenario ==
    /\ last.ss.pi_scenario /\ last.ss.pi_step = "continue"
    /\ last' = Handled("pi_new_scenario", "", "",
                       [last.ss EXCEPT !.pi_scenario = FALSE, !.pi_step = "init",
                                       !.pi_conv_history = << >>])
    /\ UNCHANGED <<cache, ref>>

\* Start Chain Session.
ChainStart ==
    /\ ~last.ss.conv_active
    /\ \E raw_ch \in {"raised", "parse_error", "ok"} :
          last' = Handled("chain_start", "", raw_ch,
                          IF raw_ch # "ok" THEN last.ss
                          ELSE [last.ss EXCEPT
                                   !.conv_active = TRUE,
                                   !.conv_chain = <<[role |-> "atc", scored |-> FALSE,
                                                     text |-> "atc"]>>])
    /\ UNCHANGED <<cache, ref>>

\* Submit & Next.
DoChainRb ==
    /\ last.ss.conv_active /\ pending_atc(last.ss.conv_chain) # 0
    /\ last.ss.total_attempts < MaxAttempts
    /\ Len(last.ss.conv_chain) + 2 <= MaxChain
    /\ \E fb \in PASS_FAIL \cup {"raised"}, next_ex \in {"raised", "complete", "ok"} :
          last' = Handled("do_chain_rb", fb, IF fb = "raised" THEN "" ELSE next_ex,
                          do_chain_rb(last.ss, fb, next_ex))
    /\ UNCHANGED <<cache, ref>>

\* Skip.
ChainSkip ==
    /\ last.ss.conv_active /\ pending_atc(last.ss.conv_chain) # 0
    /\ Len(last.ss.conv_chain) + 2 <= MaxChain
    /\ \E nx_sk \in {"raised", "complete", "ok"} :
          last' = Handled("chain_skip", "", nx_sk, chain_skip(last.ss, nx_sk))
    /\ UNCHANGED <<cache, ref>>

\* Start New Chain, the button under the Session Complete summary.
StartNewChain ==
    /\ chain_tab(last.ss).view = "complete"
    /\ last' = Handled("start_new_chain", "", "",
                       [last.ss EXCEPT !.conv_active = FALSE, !.conv_chain = << >>])
    /\ UNCHANGED <<cache, ref>>

NextSession ==
    \/ Sidebar \/ ResetSession \/ GenerateScenario \/ DoEvalM3
    \/ DoPiInitialCall \/ DoPiReadback \/ PiContinue \/ PiNewScenario
    \/ ChainStart \/ DoChainRb \/ ChainSkip \/ StartNewChain

SpecSession == InitSession /\ [][NextSession]_vars

C26_WitnessSkip ==
    /\ last.op = "chain_skip"
    /\ last.ss.streaks = 2

\* C27: in pilot-initiates mode, whichever remote calls raise,
\* pi_conv_history strictly alternates pilot and ATC entries starting with a
\* pilot entry, and pi_step = "pilot_readback" implies that the last entry
\* is an ATC transmission.
C27_Alternates ==
    LET h == last.ss.pi_conv_history
    IN /\ \A i \in 1..Len(h) : h[i] = IF i % 2 = 1 THEN "pilot" ELSE "atc"
       /\ last.ss.pi_step = "pilot_readback" => (Len(h) > 0 /\ h[Len(h)] = "atc")

\* The part of C27 that holds: the first entry is the pilot's, no two ATC
\* entries are adjacent, and at "pilot_readback" the last entry is ATC's.
C27_AtcAnswers ==
    LET h == last.ss.pi_conv_history
    IN /\ Len(h) > 0 => h[1] = "pilot"
       /\ \A i \in 1..(Len(h) - 1) : ~(h[i] = "atc" /\ h[i + 1] = "atc")
       /\ last.ss.pi_step = "pilot_readback" => (Len(h) > 0 /\ h[Len(h)] = "atc")

\* C28: conv_chain holds at most one unscored ATC entry and, when there is
\* one, it is the last entry; every submit that was evaluated and every skip
\* leaves the entries that were there as they were, except that the pending
\* one is scored, and appends after them.
C28_OnePending ==
    /\ [](LET chain == last.ss.conv_chain
              P == {i \in 1..Len(chain) : chain[i].role = "atc" /\ ~chain[i].scored}
          IN /\ Cardinality(P) <= 1
             /\ P \subseteq {Len(chain)})
    /\ [][(\/ last'.op = "do_chain_rb" /\ last'.eval # "raised"
           \/ last'.op = "chain_skip") =>
             LET old == last.ss.conv_chain
                 new == last'.ss.conv_chain
             IN /\ Len(new) > Len(old)
                /\ \A i \in 1..Len(old) :
                      /\ new[i].role = old[i].role /\ new[i].text = old[i].text
                      /\ new[i].scored
                /\ new[Len(old) + 1].role = "pilot"]_vars

\* A chain in its second exchange: the first call scored, the readback, and
\* the next call pending at the end.
C28_Witness ==
    /\ last.op = "do_chain_rb"
    /\ last.ss.conv_active
    /\ Len(last.ss.conv_chain) = 3
    /\ last.ss.conv_chain[1].scored
    /\ pending_atc(last.ss.conv_chain) = 3

\* C29: when a submitted readback makes the generator report
\* session_complete, the next run shows the Session Complete summary with
\* the number of exchanges of that chain; and completion reached by Submit
\* and completion reached by Skip leave conv_active, and the roles and
\* scored flags of conv_chain, the same.
C29_SummaryShown ==
    /\ (last.op = "do_chain_rb" /\ last.gen = "complete") =>
          /\ chain_tab(last.ss).view = "complete"
          /\ chain_tab(last.ss).exchanges =
                Cardinality({i \in 1..Len(last.ss.conv_chain) :
                                last.ss.conv_chain[i].role = "pilot"})
    /\ (last.ss.conv_active /\ pending_atc(last.ss.conv_chain) # 0) =>
          \A fb \in PASS_FAIL :
              LET a == do_chain_rb(last.ss, fb, "complete")
                  b == chain_skip(last.ss, "complete")
              IN /\ a.conv_active = b.conv_active
                 /\ Len(a.conv_chain) = Len(b.conv_chain)
                 /\ \A i \in 1..Len(a.conv_chain) :
                       /\ a.conv_chain[i].role = b.conv_chain[i].role
                       /\ a.conv_chain[i].scored = b.conv_chain[i].scored

\* What holds of completion by Skip: the next run shows the summary.
C29_SkipShowsSummary ==
    (last.op = "chain_skip" /\ last.gen = "complete") =>
        /\ chain_tab(last.ss).view = "complete"
        /\ chain_tab(last.ss).exchanges > 0

\* C30: adaptive_difficulty leaves difficulty one of the four levels and
\* moves it by at most one level: up only when accuracy > 0.85 and not at
\* the top, down only when accuracy < 0.50 and not at the bottom, and not at
\* all when auto_adapt is off or total_attempts < 3.
C30_OneLevel ==
    /\ [](\E i \in 1..4 : DIFFICULTY_LEVELS[i] = last.ss.difficulty)
    /\ Len(DIFFICULTY_LEVELS) = 4
    /\ [][last'.op = "generate_scenario" =>
             LET idx(d) == CHOOSE i \in 1..4 : DIFFICULTY_LEVELS[i] = d
                 from == idx(last.ss.difficulty)
                 to == idx(last'.ss.difficulty)
                 correct == last.ss.correct_responses
                 total == last.ss.total_attempts
             IN /\ to \in {from - 1, from, from + 1}
                /\ last'.was = last.ss.difficulty
                /\ to = from + 1 => (100 * correct > 85 * total /\ from < 4)
                /\ to = from - 1 => (100 * correct < 50 * total /\ from > 1)
                /\ (~last.ss.auto_adapt \/ total < 3) => to = from
                /\ (last.ss.auto_adapt /\ total >= 3 /\ 100 * correct > 85 * total
                    /\ from < 4) => to = from + 1
                /\ (last.ss.auto_adapt /\ total >= 3 /\ 100 * correct < 50 * total
                    /\ from > 1) => to = from - 1]_vars

\* A generation that raised the difficulty from Commercial to the top level.
C30_Witness ==
    /\ last.op = "generate_scenario"
    /\ last.was = "Commercial"
    /\ last.ss.difficulty = "Expert / ATPL"

\* A generation that lowered the difficulty.
C30_WitnessDown ==
    /\ last.op = "generate_scenario"
    /\ last.was = "Private Pilot"
    /\ last.ss.difficulty = "Student Pilot"
    /\ last.ss.correct_responses = 1

====
